---------------------------- MODULE Spec2Model ----------------------------
(***************************************************************************)
(* A model of sszgen, the fastssz code generator.                          *)
(*                                                                         *)
(* The module has three layers:                                            *)
(*   1. the generator's front end: tag parsing, the AST tables and the     *)
(*      construction of the intermediate representation (IR, the Value     *)
(*      records);                                                          *)
(*   2. the generator's back end: Generate, print, hashSource and the      *)
(*      writing of the output files (specification SpecGen);               *)
(*   3. the behaviour of the methods the emitters write (SizeSSZ,          *)
(*      MarshalSSZTo, UnmarshalSSZ, HashTreeRootWith), obtained by reading  *)
(*      the emitters' templates under an IR node (specification Spec).     *)
(*                                                                         *)
(* Go strings are TLA+ strings, Go slices are sequences, Go maps are       *)
(* functions whose enumeration order is chosen by the caller, a nil error  *)
(* is the empty string.                                                    *)
(***************************************************************************)
EXTENDS Integers, Sequences, FiniteSets, TLC

VARIABLES
    \* ---- specification SpecGen: two runs of Generate over one input ----
    input,      \* the command line and the file system the runs read
    gpc,        \* gpc[r]: position of run r in Generate
    genv,       \* genv[r]: the env of run r (raw, objs, order, imports)
    gout,       \* gout[r]: the map `out` of run r (file name -> text)
    gtodo,      \* gtodo[r]: the entries of `out` the write loop has not visited
    gdisk,      \* gdisk[r]: the files run r has written (file name -> text)
    gerr,       \* gerr[r]: the error Generate returned ("" is nil)
    gexit,      \* gexit[r]: the exit status of the process of run r (-1: running)
    gstdout,    \* gstdout[r]: what main has printed, one entry per Printf
    \* ---- specification Spec: calls of the methods emitted for one record ----
    mty,        \* name of the record type whose methods run
    mrecv,      \* the receiver as the last call left it
    mrecv0,     \* the receiver as the last call found it
    mbuf,       \* the buffer passed to the last MarshalSSZTo or UnmarshalSSZ
    mdst,       \* the dst MarshalSSZTo returned
    msize,      \* the value SizeSSZ returned (-1: not called)
    moffs,      \* the offset variables of the last UnmarshalSSZ, by name
    mhh,        \* what HashTreeRootWith left in the hasher
    mpc,        \* the last call: "idle", "sized", "marshalled", "unmarshalled", "hashed"
    mres,       \* the error the last call returned ("" is nil) or its panic
    morig,      \* the record that was marshalled and the bytes that gave
    \* ---- specification SpecEmit: the emitters run on one record's node ----
    emit,       \* the node before and after the emitters run so far, and their texts
    \* ---- specification SpecTags: one lookup in a tag string ----
    lookup      \* the tag string, the key, and what getTags returned

gvars == <<input, gpc, genv, gout, gtodo, gdisk, gerr, gexit, gstdout>>
rvars == <<mty, mrecv, mrecv0, mbuf, mdst, msize, moffs, mhh, mpc, mres, morig>>
evars == <<emit, lookup>>
vars == <<gvars, rvars, evars>>

-----------------------------------------------------------------------------
(* Helpers on sequences, strings and maps.                                 *)

Range(s) == {s[i] : i \in 1..Len(s)}

HasSuffix(s, suf) ==
    Len(s) >= Len(suf) /\ SubSeq(s, Len(s) - Len(suf) + 1, Len(s)) = suf

HasPrefix(s, pre) ==
    Len(s) >= Len(pre) /\ SubSeq(s, 1, Len(pre)) = pre

\* m[k] = v added to the Go map m
Put(m, k, v) == [n \in DOMAIN m \cup {k} |-> IF n = k THEN v ELSE m[n]]

EmptyMap == [n \in {} |-> 0]

\* all the orders in which the runtime may enumerate the set S
Perms(S) ==
    {p \in [1..Cardinality(S) -> S] : \A a \in S : \E i \in DOMAIN p : p[i] = a}

RECURSIVE Flatten(_)
Flatten(ss) == IF ss = <<>> THEN <<>> ELSE Head(ss) \o Flatten(Tail(ss))

RECURSIVE SeqsUpTo(_, _)
\* the sequences over S of length at most n
SeqsUpTo(S, n) ==
    IF n = 0 THEN {<<>>}
    ELSE LET shorter == SeqsUpTo(S, n - 1)
         IN shorter \cup {Append(s, a) : s \in {t \in shorter : Len(t) = n - 1}, a \in S}

SeqsOfLen(S, n) == {s \in SeqsUpTo(S, n) : Len(s) = n}

-----------------------------------------------------------------------------
(* The SSZ type kinds (Type.String).                                       *)

TypeUint == "uint"
TypeBool == "bool"
TypeBytes == "bytes"
TypeBitVector == "bitvector"
TypeBitList == "bitlist"
TypeVector == "vector"
TypeList == "list"
TypeContainer == "container"
TypeReference == "reference"

bytesPerLengthOffset == 4

\* The zero Value; elementType is a sequence of length 0 (nil) or 1.
Value0 ==
    [fieldName |-> "", structName |-> "", valueSize |-> 0, sizeInBytes |-> 0,
     sszValueType |-> "", fields |-> <<>>, elementType |-> <<>>,
     sizeIsVariable |-> FALSE, maxSize |-> 0, referencePackageAlias |-> "",
     noPtr |-> FALSE]

RECURSIVE isFixed(_)
\* isFixed with every vector taken to be fixed
isFixedAnyVector(v) ==
    CASE v.sszValueType = TypeVector -> TRUE
      [] v.sszValueType = TypeBytes -> v.sizeInBytes # 0
      [] v.sszValueType = TypeContainer -> ~v.sizeIsVariable
      [] v.sszValueType \in {TypeBitList, TypeList} -> FALSE
      [] v.sszValueType \in {TypeBitVector, TypeUint, TypeBool} -> TRUE
      [] v.sszValueType = TypeReference -> v.sizeInBytes # 0

isFixed(v) ==
    CASE v.sszValueType = TypeVector -> isFixed(v.elementType[1])
      [] v.sszValueType = TypeBytes -> v.sizeInBytes # 0
      [] v.sszValueType = TypeContainer -> ~v.sizeIsVariable
      [] v.sszValueType \in {TypeBitList, TypeList} -> FALSE
      [] v.sszValueType \in {TypeBitVector, TypeUint, TypeBool} -> TRUE
      [] v.sszValueType = TypeReference -> v.sizeInBytes # 0

isBasicType(v) == v.sszValueType \in {TypeUint, TypeBool, TypeBytes}

isListElem(v) == HasSuffix(v.fieldName, "]")

objRef(v) ==
    IF v.referencePackageAlias = "" THEN v.structName
    ELSE v.referencePackageAlias \o "." \o v.structName

-----------------------------------------------------------------------------
(* Field tags.  A tag string is the sequence of its space-separated        *)
(* tokens; a token records how many ':' it holds, the text before the      *)
(* first ':', whether the text after it stands in double quotes, and the   *)
(* quoted text: a decimal numeral (kind "int", its value in a), a pair     *)
(* "x,y" (kind "tuple", first "?" recorded in q) or anything else          *)
(* (kind "word").                                                          *)

TagVal(kind, w, a, b, q) == [kind |-> kind, w |-> w, a |-> a, b |-> b, q |-> q]
IntVal(n) == TagVal("int", "", n, 0, FALSE)
WordVal(w) == TagVal("word", w, 0, 0, FALSE)
TupleVal(a, b) == TagVal("tuple", "", a, b, FALSE)
DeferVal(b) == TagVal("tuple", "", 0, b, TRUE)
Tok(name, val) == [name |-> name, colons |-> 1, quoted |-> TRUE, val |-> val]
NoTags == <<>>

NotFound == [ok |-> FALSE, val |-> WordVal("")]

RECURSIVE getTagsFrom(_, _, _)
getTagsFrom(toks, field, i) ==
    IF i > Len(toks) THEN NotFound
    ELSE LET tag == toks[i] IN
         IF tag.colons = 0 THEN NotFound
         ELSE IF tag.colons # 1 THEN NotFound
         ELSE IF ~tag.quoted THEN NotFound
         ELSE IF tag.name # field THEN getTagsFrom(toks, field, i + 1)
         ELSE [ok |-> TRUE, val |-> tag.val]

getTags(str, field) == getTagsFrom(str, field, 1)

\* strconv.Atoi succeeds on a numeral only
getTagsInt(str, field) ==
    LET t == getTags(str, field) IN
    IF ~t.ok THEN [ok |-> FALSE, n |-> 0]
    ELSE IF t.val.kind # "int" THEN [ok |-> FALSE, n |-> 0]
    ELSE [ok |-> TRUE, n |-> t.val.a]

getTagsTuple(str, field) ==
    LET t == getTags(str, field) IN
    IF ~t.ok THEN [ok |-> FALSE, a |-> 0, b |-> 0]
    ELSE IF t.val.kind # "tuple" THEN [ok |-> FALSE, a |-> 0, b |-> 0]
    ELSE [ok |-> TRUE, a |-> IF t.val.q THEN 0 ELSE t.val.a, b |-> t.val.b]

-----------------------------------------------------------------------------
(* The Go AST the generator reads.  A type expression is an identifier,    *)
(* a pointer to X, a qualified identifier pkg.Name, or an array or slice   *)
(* ([len]Elt, len 0 for a slice); x holds the operand, if any.             *)

Ident(n) == [k |-> "Ident", name |-> n, pkg |-> "", len |-> 0, x |-> <<>>]
Sel(p, n) == [k |-> "SelectorExpr", name |-> n, pkg |-> p, len |-> 0, x |-> <<>>]
Star(e) == [k |-> "StarExpr", name |-> "", pkg |-> "", len |-> 0, x |-> <<e>>]
Arr(l, e) == [k |-> "ArrayType", name |-> "", pkg |-> "", len |-> l, x |-> <<e>>]

\* one entry of a struct's field list: its names, its type, its tag
Field(n, t, tags) == [names |-> <<n>>, typ |-> t, tags |-> tags]

\* a type declaration: a struct (fields) or another type (typ)
StructDecl(n, fs) == [name |-> n, isStruct |-> TRUE, fields |-> fs, typ |-> <<>>]
TypeDecl(n, t) == [name |-> n, isStruct |-> FALSE, fields |-> <<>>, typ |-> <<t>>]

\* a method declaration: receiver type name, pointer receiver or not, method
\* name, and the formatted parameter and result types
Method(r, ptr, n, in, out) == [recv |-> r, ptr |-> ptr, name |-> n, in |-> in, out |-> out]

Import(alias, path, base) == [alias |-> alias, path |-> path, base |-> base]

\* a source file: type declarations and methods in source order, imports;
\* empty is the emptiness test of parsePackage
File(decls, funcs, imports) ==
    [decls |-> decls, funcs |-> funcs, imports |-> imports,
     empty |-> decls = <<>> /\ funcs = <<>> /\ imports = <<>>]

isArray(obj) == obj.k = "ArrayType"

isByte(obj) == obj.k = "Ident" /\ obj.name = "byte"

getObjLen(obj) == obj.len

\* the byte value of the characters a field name may start with
CharCode(c) ==
    CASE c \in {"A", "B", "C", "D", "E", "F", "G", "H", "I", "J", "K", "L", "M",
                "N", "O", "P", "Q", "R", "S", "T", "U", "V", "W", "X", "Y", "Z"} -> 80
      [] c = "_" -> 95
      [] OTHER -> 110

isExportedField(str) == CharCode(Head(str)) <= 90

getRootSizes(obj, tags) ==
    LET f0 == getObjLen(obj)
        s0 == getObjLen(obj.x[1])
        fCheck == f0 # 0
        sCheck == s0 # 0
        R(f, s, t, err) ==
            [f |-> f, fCheck |-> fCheck, s |-> s, sCheck |-> sCheck, t |-> t, err |-> err]
        size == getTagsInt(tags, "ssz-size")
        max == getTagsInt(tags, "ssz-max")
        tup == getTagsTuple(tags, "ssz-size")
    IN IF f0 # 0 /\ s0 # 0 THEN R(f0, s0, TypeVector, "")
       ELSE IF f0 # s0 THEN
            IF ~size.ok /\ ~max.ok THEN R(f0, s0, TypeList, "bad")
            ELSE LET t == IF size.ok THEN TypeVector ELSE TypeList
                     n == IF size.ok THEN size.n ELSE max.n
                 IN IF f0 = 0 THEN R(n, s0, t, "") ELSE R(f0, n, t, "")
       ELSE IF ~tup.ok THEN R(0, 0, TypeVector, "[][]byte expects a ssz-size tag")
       ELSE IF tup.a = 0 THEN
            IF ~max.ok THEN R(0, tup.b, TypeList, "ssz-max not set after '?' field on ssz-size")
            ELSE R(max.n, tup.b, TypeList, "")
       ELSE R(tup.a, tup.b, TypeVector, "")

-----------------------------------------------------------------------------
(* IR construction.  e.raw is a function from record name to astStruct,    *)
(* e.objs (the by-name cache) a function from record name to Value.  The   *)
(* builder's functions return the node, whether it is nil, the cache as    *)
(* they leave it, and the error.  fuel bounds the depth of the recursion:  *)
(* Go's stack is finite too, and running out of it ends the program.       *)

\* what ends the program when the recursion of the builder exhausts the
\* stack: a fatal error of the Go runtime, which no caller handles
StackOverflow == "fatal error: stack overflow"

BOk(v, objs) == [v |-> v, nil |-> FALSE, objs |-> objs, err |-> ""]
BNil(objs) == [v |-> Value0, nil |-> TRUE, objs |-> objs, err |-> ""]
BErr(msg, objs) == [v |-> Value0, nil |-> TRUE, objs |-> objs, err |-> msg]

RECURSIVE encodeItem(_, _, _, _, _)
RECURSIVE parseASTStructType(_, _, _, _, _)
RECURSIVE parseASTFieldType(_, _, _, _, _, _)
RECURSIVE parseStructFields(_, _, _, _, _, _)

\* encodeItem, the end: name the node and store it in the cache
encodeItemStore(name, got) ==
    IF got.err = StackOverflow THEN got
    ELSE IF got.err # "" THEN BErr("failed to encode", got.objs)
    ELSE IF got.nil THEN BErr("nil pointer dereference", got.objs)
    ELSE BOk([got.v EXCEPT !.fieldName = name, !.structName = name],
             Put(got.objs, name, [got.v EXCEPT !.fieldName = name, !.structName = name]))

\* encodeItem, the middle: the node of a raw entry that is not in the cache
encodeItemBuild(raw, objs, name, tags, r, fuel) ==
    IF r.implFunc
    THEN BOk([Value0 EXCEPT !.sszValueType = TypeReference,
                             !.sizeInBytes = getTagsInt(tags, "ssz-size").n,
                             !.valueSize = getTagsInt(tags, "ssz-size").n,
                             !.noPtr = ~r.isStruct], objs)
    ELSE IF r.isStruct
    THEN parseASTStructType(raw, objs, name, r.fields, fuel - 1)
    ELSE parseASTFieldType(raw, objs, name, tags, r.typ[1], fuel - 1)

encodeItem(raw, objs, name, tags, fuel) ==
    IF name \in DOMAIN objs THEN BOk(objs[name], objs)
    ELSE IF name \notin DOMAIN raw THEN BErr("could not find struct", objs)
    ELSE IF fuel = 0 THEN BErr(StackOverflow, objs)
    ELSE encodeItemStore(name, encodeItemBuild(raw, objs, name, tags, raw[name], fuel))

\* that body without the test for the prefix XXX_
parseStructFieldKeepXXX(raw, objs, f, fuel) ==
    IF Len(f.names) # 1 THEN BNil(objs)
    ELSE IF ~isExportedField(f.names[1]) THEN BNil(objs)
    ELSE parseASTFieldType(raw, objs, f.names[1], f.tags, f.typ, fuel)

\* parseASTStructType, the body of the loop for one entry of the field list:
\* entries without exactly one name, unexported names and XXX_ names are
\* skipped, as are the fields whose node is nil
parseStructField(raw, objs, f, fuel) ==
    IF Len(f.names) # 1 THEN BNil(objs)
    ELSE IF ~isExportedField(f.names[1]) THEN BNil(objs)
    ELSE IF HasPrefix(f.names[1], "XXX_") THEN BNil(objs)
    ELSE parseASTFieldType(raw, objs, f.names[1], f.tags, f.typ, fuel)

\* parseASTStructType, the loop over typ.Fields.List after entry i gave elem
parseStructFieldsNext(raw, fs, i, acc, fuel, elem) ==
    IF elem.err # "" THEN elem
    ELSE parseStructFields(raw, elem.objs, fs, i + 1,
                           IF elem.nil THEN acc
                           ELSE Append(acc, [elem.v EXCEPT !.fieldName = fs[i].names[1]]),
                           fuel)

parseStructFields(raw, objs, fs, i, acc, fuel) ==
    IF i > Len(fs) THEN BOk([Value0 EXCEPT !.fields = acc], objs)
    ELSE parseStructFieldsNext(raw, fs, i, acc, fuel, parseStructField(raw, objs, fs[i], fuel))

\* that step without the offset a variable field takes in the fixed part
containerSizeAddNoOffset(f, rest) ==
    IF isFixed(f) THEN [rest EXCEPT !.valueSize = @ + f.valueSize]
    ELSE [valueSize |-> rest.valueSize, sizeIsVariable |-> TRUE]

\* one step of the loop "get the total size of the container"
containerSizeAdd(f, rest) ==
    IF isFixed(f) THEN [rest EXCEPT !.valueSize = @ + f.valueSize]
    ELSE [valueSize |-> rest.valueSize + bytesPerLengthOffset, sizeIsVariable |-> TRUE]

RECURSIVE containerSize(_, _)
\* the loop "get the total size of the container", from field i on: the
\* size of the fixed part and whether some field is variable
containerSize(fields, i) ==
    IF i > Len(fields) THEN [valueSize |-> 0, sizeIsVariable |-> FALSE]
    ELSE containerSizeAdd(fields[i], containerSize(fields, i + 1))

\* parseASTStructType, the end: the container's size
structDone(name, got, tot) ==
    IF got.err # "" THEN got
    ELSE BOk([got.v EXCEPT !.fieldName = name, !.sszValueType = TypeContainer,
                           !.valueSize = tot.valueSize,
                           !.sizeIsVariable = tot.sizeIsVariable], got.objs)

structTotal(got) == containerSize(got.v.fields, 1)

structSized(name, got) == structDone(name, got, structTotal(got))

parseASTStructType(raw, objs, name, fs, fuel) ==
    structSized(name, parseStructFields(raw, objs, fs, 1, <<>>, fuel))

BytesElem(s, sCheck) ==
    [Value0 EXCEPT !.sszValueType = TypeBytes, !.sizeIsVariable = sCheck,
                   !.valueSize = s, !.sizeInBytes = s]

\* parseASTFieldType on []byte and [n]byte
fieldOfBytes(objs, tags, expr, ssz, size, max) ==
    IF getObjLen(expr) # 0
    THEN BOk([Value0 EXCEPT !.sszValueType = TypeBytes, !.sizeIsVariable = TRUE,
                             !.sizeInBytes = getObjLen(expr),
                             !.valueSize = getObjLen(expr)], objs)
    ELSE IF ssz.ok /\ ssz.val.kind = "word" /\ ssz.val.w = "bitlist" THEN
        IF ~max.ok THEN BErr("bitfield requires a 'ssz-max' field", objs)
        ELSE BOk([Value0 EXCEPT !.sszValueType = TypeBitList,
                                 !.maxSize = max.n, !.sizeInBytes = max.n], objs)
    ELSE IF size.ok
    THEN BOk([Value0 EXCEPT !.sszValueType = TypeBytes,
                             !.sizeInBytes = size.n, !.valueSize = size.n], objs)
    ELSE IF ~max.ok THEN BErr("[]byte expects either ssz-max or ssz-size", objs)
    ELSE BOk([Value0 EXCEPT !.sszValueType = TypeBytes, !.maxSize = max.n], objs)

\* parseASTFieldType on arrays and slices of arrays and slices of byte
fieldOfByteRows(objs, rs) ==
    IF rs.err # "" THEN BErr(rs.err, objs)
    ELSE IF rs.t = TypeVector
    THEN BOk([Value0 EXCEPT !.sszValueType = TypeVector,
                             !.sizeIsVariable = rs.fCheck,
                             !.valueSize = rs.f * rs.s, !.sizeInBytes = rs.f,
                             !.elementType = <<BytesElem(rs.s, rs.sCheck)>>], objs)
    ELSE BOk([Value0 EXCEPT !.sszValueType = TypeList, !.sizeInBytes = rs.f,
                             !.elementType = <<BytesElem(rs.s, rs.sCheck)>>], objs)

\* parseASTFieldType on a slice of anything else, once the element is built
fieldOfElems(size, max, elem) ==
    IF elem.err # "" THEN elem
    ELSE IF elem.nil THEN BErr("nil pointer dereference", elem.objs)
    ELSE IF size.ok
    THEN BOk([Value0 EXCEPT !.sszValueType = TypeVector, !.sizeInBytes = size.n,
                             !.elementType = <<elem.v>>,
                             !.valueSize = IF isFixed(elem.v)
                                           THEN size.n * elem.v.valueSize ELSE 0],
             elem.objs)
    ELSE IF ~max.ok THEN BErr("slice expects either ssz-max or ssz-size", elem.objs)
    ELSE BOk([Value0 EXCEPT !.sszValueType = TypeList, !.elementType = <<elem.v>>,
                             !.sizeInBytes = max.n, !.maxSize = max.n], elem.objs)

\* parseASTFieldType on the identifiers of the basic types
fieldOfBasic(objs, name) ==
    CASE name = "uint64" -> BOk([Value0 EXCEPT !.sszValueType = TypeUint, !.valueSize = 8], objs)
      [] name = "uint32" -> BOk([Value0 EXCEPT !.sszValueType = TypeUint, !.valueSize = 4], objs)
      [] name = "uint16" -> BOk([Value0 EXCEPT !.sszValueType = TypeUint, !.valueSize = 2], objs)
      [] name = "uint8" -> BOk([Value0 EXCEPT !.sszValueType = TypeUint, !.valueSize = 1], objs)
      [] name = "bool" -> BOk([Value0 EXCEPT !.sszValueType = TypeBool, !.valueSize = 1], objs)

\* parseASTFieldType on bitfield.Bitlist and bitfield.Bitvector<N>
fieldOfBitfield(objs, expr, size, max) ==
    IF expr.name = "Bitlist" THEN
        IF ~max.ok THEN BErr("bitlist does not have ssz-max tag", objs)
        ELSE BOk([Value0 EXCEPT !.sszValueType = TypeBitList,
                                 !.maxSize = max.n, !.sizeInBytes = max.n], objs)
    ELSE IF ~size.ok THEN BErr("bitvector does not have ssz-size tag", objs)
    ELSE BOk([Value0 EXCEPT !.sszValueType = TypeBytes,
                             !.sizeInBytes = size.n, !.valueSize = size.n], objs)

\* the type expressions parseASTFieldType resolves by name with encodeItem:
\* pointer to X, pointer to pkg.X, an identifier that is no basic type, and
\* pkg.X other than the bitfields
namedBy(expr) ==
    CASE expr.k = "StarExpr" ->
            IF expr.x[1].k \in {"Ident", "SelectorExpr"} THEN expr.x[1].name ELSE ""
      [] expr.k = "Ident" ->
            IF expr.name \in {"uint64", "uint32", "uint16", "uint8", "bool"} THEN "" ELSE expr.name
      [] expr.k = "SelectorExpr" ->
            IF expr.name = "Bitlist" \/ HasPrefix(expr.name, "Bitvector") THEN "" ELSE expr.name
      [] OTHER -> ""

\* parseASTFieldType, what each of those four branches does with the node
fieldOfNamed(expr, got) ==
    CASE expr.k = "StarExpr" /\ expr.x[1].k = "Ident" -> got
      [] expr.k = "StarExpr" /\ expr.x[1].k = "SelectorExpr" ->
            IF got.err # "" THEN got
            ELSE BOk([got.v EXCEPT !.referencePackageAlias = expr.x[1].pkg], got.objs)
      [] expr.k = "Ident" ->
            IF got.err = StackOverflow THEN got
            ELSE IF got.err # "" THEN BErr("type not found", got.objs) ELSE got
      [] expr.k = "SelectorExpr" ->
            IF got.err # "" THEN got
            ELSE BOk([got.v EXCEPT !.referencePackageAlias = expr.pkg, !.noPtr = TRUE], got.objs)

parseASTFieldTypeTagged(raw, objs, name, tags, expr, fuel, ssz, size, max) ==
    IF ssz.ok /\ ssz.val.kind = "word" /\ ssz.val.w = "-" THEN BNil(objs)
    ELSE IF namedBy(expr) # ""
    THEN fieldOfNamed(expr, encodeItem(raw, objs, namedBy(expr), tags, fuel))
    ELSE CASE expr.k = "StarExpr" -> BErr("cannot handle", objs)
           [] expr.k = "ArrayType" ->
                IF isByte(expr.x[1]) THEN fieldOfBytes(objs, tags, expr, ssz, size, max)
                ELSE IF isArray(expr.x[1]) /\ isByte(expr.x[1].x[1])
                THEN fieldOfByteRows(objs, getRootSizes(expr, tags))
                ELSE fieldOfElems(size, max,
                                  parseASTFieldType(raw, objs, name, tags, expr.x[1], fuel))
           [] expr.k = "Ident" -> fieldOfBasic(objs, expr.name)
           [] expr.k = "SelectorExpr" -> fieldOfBitfield(objs, expr, size, max)

parseASTFieldType(raw, objs, name, tags, expr, fuel) ==
    parseASTFieldTypeTagged(raw, objs, name, tags, expr, fuel,
                            getTags(tags, "ssz"), getTagsInt(tags, "ssz-size"),
                            getTagsInt(tags, "ssz-max"))

-----------------------------------------------------------------------------
(* The emitters.  An emitter returns the Go text it writes and the IR node *)
(* as it leaves it (the emitters assign to the node they are given).  The  *)
(* text is kept as the sequence of its statements, one record per          *)
(* template line; `path` is the text that follows the receiver ("::." or   *)
(* ReceiverName.) in the template.                                         *)

Emitted(code, v) == [code |-> code, v |-> v]

StValidate(path, cmp, n, err) == [op |-> "validate", path |-> path, cmp |-> cmp, n |-> n, err |-> err]
StAppend(path) == [op |-> "append", path |-> path]
StMarshalUint(n, path, cast) == [op |-> "marshalUint", n |-> n, path |-> path, cast |-> cast]
StMarshalBool(path) == [op |-> "marshalBool", path |-> path]
StForLen(path, body) == [op |-> "forLen", path |-> path, body |-> body]
StForN(n, body) == [op |-> "forN", n |-> n, body |-> body]
StNilInit(path, structName) == [op |-> "nilInit", path |-> path, structName |-> structName]
StCallMarshal(path) == [op |-> "callMarshal", path |-> path]
StCallSize(ctr, path) == [op |-> "callSize", ctr |-> ctr, path |-> path]
StWriteOffset == [op |-> "writeOffset"]
StCtrAdd(ctr, n) == [op |-> "ctrAdd", ctr |-> ctr, n |-> n]
StCtrAddLen(ctr, path, mul) == [op |-> "ctrAddLen", ctr |-> ctr, path |-> path, mul |-> mul]
StOffsetSet4Len(path) == [op |-> "offsetSet4Len", path |-> path]

\* validate: the bound check written before a field is encoded or hashed
validate(v) ==
    CASE v.sszValueType \in {TypeBitList, TypeBytes} ->
            IF v.sizeIsVariable THEN <<>>
            ELSE IF v.sizeInBytes = 0
            THEN <<StValidate(v.fieldName, ">", v.maxSize, "ErrBytesLength")>>
            ELSE <<StValidate(v.fieldName,
                              IF v.sszValueType = TypeBitList THEN ">" ELSE "!=",
                              v.sizeInBytes, "ErrBytesLength")>>
      [] v.sszValueType = TypeVector ->
            IF v.sizeIsVariable THEN <<>>
            ELSE <<StValidate(v.fieldName, "!=", v.sizeInBytes, "ErrVectorLength")>>
      [] v.sszValueType = TypeList ->
            <<StValidate(v.fieldName, ">", v.sizeInBytes, "ErrListTooBig")>>
      [] OTHER -> <<>>

\* the text code followed by the text of em
Prepend(code, em) == Emitted(code \o em.code, em.v)

\* v.elementType.fieldName = v.fieldName + suffix
NameElem(v, suffix) == [v EXCEPT !.elementType[1].fieldName = v.fieldName \o suffix]

\* sizeContainer(name, false): the size of a record field
sizeContainerField(v, name) ==
    Emitted((IF ~isListElem(v) /\ ~v.noPtr THEN <<StNilInit(v.fieldName, objRef(v))>> ELSE <<>>)
            \o <<StCallSize(name, v.fieldName)>>, v)

\* sizeOfElems without the four bytes of offset each element takes
sizeOfElemsNoOffset(v, name, dyn) ==
    Emitted(<<StForLen(v.fieldName, dyn.code)>>, [v EXCEPT !.elementType = <<dyn.v>>])

\* size of a list of variable elements, dyn being the size of one element
sizeOfElems(v, name, dyn) ==
    Emitted(<<StForLen(v.fieldName, <<StCtrAdd(name, 4)>> \o dyn.code)>>,
            [v EXCEPT !.elementType = <<dyn.v>>])

RECURSIVE emitSize(_, _)
\* (v *Value) size(name): the statements that add the field's size to name
emitSize(v, name) ==
    IF isFixed(v) THEN
        IF v.sszValueType = TypeContainer THEN sizeContainerField(v, name)
        ELSE Emitted(<<StCtrAdd(name, v.valueSize)>>, v)
    ELSE CASE v.sszValueType \in {TypeContainer, TypeReference} -> sizeContainerField(v, name)
           [] v.sszValueType \in {TypeBitList, TypeBytes} ->
                Emitted(<<StCtrAddLen(name, v.fieldName, 1)>>, v)
           [] v.sszValueType \in {TypeList, TypeVector} ->
                IF isFixed(v.elementType[1])
                THEN Emitted(<<StCtrAddLen(name, v.fieldName, v.elementType[1].valueSize)>>, v)
                ELSE sizeOfElems(NameElem(v, "[ii]"), name,
                                 emitSize(NameElem(v, "[ii]").elementType[1], name))

RECURSIVE sizeContainerFrom(_, _, _)

sizeContainerNext(v, name, i, one) ==
    Prepend(one.code, sizeContainerFrom([v EXCEPT !.fields[i] = one.v], name, i + 1))

\* the loop of sizeContainer(name, true) over the fields, from field i on
sizeContainerFrom(v, name, i) ==
    IF i > Len(v.fields) THEN Emitted(<<>>, v)
    ELSE sizeContainerNext(v, name, i,
                           IF isFixed(v.fields[i]) THEN Emitted(<<>>, v.fields[i])
                           ELSE emitSize(v.fields[i], name))

sizeContainer(v, name) == sizeContainerFrom(v, name, 1)

\* (e *env) size: the body of SizeSSZ, "size = <fixed>" first
size(v) ==
    Prepend(<<[op |-> "ctrSet", ctr |-> "size", n |-> v.valueSize]>>, sizeContainer(v, "size"))

\* marshalContainer(false): the encoding of a record field
marshalContainerField(v) ==
    Emitted((IF isFixed(v) /\ ~isListElem(v) /\ ~v.noPtr
             THEN <<StNilInit(v.fieldName, objRef(v))>> ELSE <<>>)
            \o <<StCallMarshal(v.fieldName)>>, v)

RECURSIVE emitMarshal(_)

\* marshalList, the text: the bound check, then one loop over fixed
\* elements, or the offsets (sz) and then the elements (ma)
marshalListDone(v, sz, ma) ==
    IF isFixed(v.elementType[1])
    THEN Emitted(validate(v) \o <<StForLen(v.fieldName, ma.code)>>,
                 [v EXCEPT !.elementType = <<ma.v>>])
    ELSE Emitted(validate(v) \o <<StOffsetSet4Len(v.fieldName),
                                  StForLen(v.fieldName, <<StWriteOffset>> \o sz.code),
                                  StForLen(v.fieldName, ma.code)>>,
                 [v EXCEPT !.elementType = <<ma.v>>])

marshalListSized(v, sz) == marshalListDone(v, sz, emitMarshal(sz.v))

\* marshalList and marshalVector: both name the element v.fieldName[ii];
\* marshalVector loops to the fixed count
marshalVectorDone(v, ma) ==
    Emitted(validate(v) \o <<StForN(v.sizeInBytes, ma.code)>>, [v EXCEPT !.elementType = <<ma.v>>])

marshalElemsSized(v, asVector, sz) ==
    IF asVector THEN marshalVectorDone(v, emitMarshal(sz.v)) ELSE marshalListSized(v, sz)

marshalList(v) ==
    marshalElemsSized(NameElem(v, "[ii]"), FALSE,
                      IF isFixed(v.elementType[1]) THEN Emitted(<<>>, NameElem(v, "[ii]").elementType[1])
                      ELSE emitSize(NameElem(v, "[ii]").elementType[1], "offset"))

marshalVector(v) ==
    marshalElemsSized(NameElem(v, "[ii]"), TRUE, Emitted(<<>>, NameElem(v, "[ii]").elementType[1]))

emitMarshal(v) ==
    CASE v.sszValueType \in {TypeContainer, TypeReference} -> marshalContainerField(v)
      [] v.sszValueType = TypeBytes ->
            Emitted(validate(v) \o
                    <<StAppend(IF v.sizeIsVariable THEN v.fieldName \o "[:]" ELSE v.fieldName)>>, v)
      [] v.sszValueType = TypeUint ->
            Emitted(<<StMarshalUint(v.valueSize, v.fieldName,
                                    v.referencePackageAlias # "" \/ v.structName # "")>>, v)
      [] v.sszValueType = TypeBitList -> Emitted(validate(v) \o <<StAppend(v.fieldName)>>, v)
      [] v.sszValueType = TypeBool -> Emitted(<<StMarshalBool(v.fieldName)>>, v)
      [] v.sszValueType = TypeVector ->
            IF isFixed(v.elementType[1]) THEN marshalVector(v) ELSE marshalList(v)
      [] v.sszValueType = TypeList -> marshalList(v)

RECURSIVE marshalFixedPart(_, _)

marshalFixedNext(v, i, one) ==
    Prepend(one.code, marshalFixedPart([v EXCEPT !.fields[i] = one.v], i + 1))

\* the first loop of marshalContainer(true): fixed fields and offsets
marshalFixedPart(v, i) ==
    IF i > Len(v.fields) THEN Emitted(<<>>, v)
    ELSE marshalFixedNext(v, i,
                          IF isFixed(v.fields[i]) THEN emitMarshal(v.fields[i])
                          ELSE Prepend(<<StWriteOffset>>, emitSize(v.fields[i], "offset")))

RECURSIVE marshalDynamicPart(_, _)

marshalDynamicNext(v, i, one) ==
    Prepend(one.code, marshalDynamicPart([v EXCEPT !.fields[i] = one.v], i + 1))

\* the second loop of marshalContainer(true): the variable fields
marshalDynamicPart(v, i) ==
    IF i > Len(v.fields) THEN Emitted(<<>>, v)
    ELSE marshalDynamicNext(v, i,
                            IF isFixed(v.fields[i]) THEN Emitted(<<>>, v.fields[i])
                            ELSE emitMarshal(v.fields[i]))

marshalContainerTail(a) == Prepend(a.code, marshalDynamicPart(a.v, 1))

marshalContainer(v) == marshalContainerTail(marshalFixedPart(v, 1))

\* (e *env) marshal: the body of MarshalSSZTo, "offset := int(<valueSize>)"
\* first when the record is variable
marshal(v) ==
    Prepend(IF ~isFixed(v) THEN <<[op |-> "ctrSet", ctr |-> "offset", n |-> v.valueSize]>>
            ELSE <<>>, marshalContainer(v))

-----------------------------------------------------------------------------
(* The unmarshal emitter.  A source expression such as                     *)
(* buf[4:8][ii*2: (ii+1)*2] is kept as the range cut from buf (if any) and *)
(* the sizes of the ii-indexed chunks cut from that.                       *)

Itoa(n) == <<"0", "1", "2", "3", "4", "5", "6", "7", "8", "9">>[n + 1]

WholeBuf == [ranged |-> FALSE, lo |-> 0, hi |-> 0, chunks |-> <<>>]
BufRange(lo, hi) == [ranged |-> TRUE, lo |-> lo, hi |-> hi, chunks |-> <<>>]
Chunk(src, k) == [src EXCEPT !.chunks = @ \o <<k>>]

StSizeCheck(cmp, n) == [op |-> "sizeCheck", cmp |-> cmp, n |-> n]
StDeclOffsets(names) == [op |-> "declOffsets", names |-> names]
StField(indx, name, body) == [op |-> "field", indx |-> indx, name |-> name, body |-> body]
StReadOffset(indx, name, offset, src, more) ==
    [op |-> "readOffset", indx |-> indx, name |-> name, offset |-> offset, src |-> src, more |-> more]
StTail(indx, name, from, to, body) ==
    [op |-> "tail", indx |-> indx, name |-> name, from |-> from, to |-> to, body |-> body]
StCopy(path, src) == [op |-> "copy", path |-> path, src |-> src]
StCheckLen(src, max) == [op |-> "checkLen", src |-> src, max |-> max]
StAppendFrom(path, src) == [op |-> "appendFrom", path |-> path, src |-> src]
StValidateBitlist(src, n) == [op |-> "validateBitlist", src |-> src, n |-> n]
StUnmarshalUint(n, path, src, cast) ==
    [op |-> "unmarshalUint", n |-> n, path |-> path, src |-> src, cast |-> cast]
StUnmarshalBool(path, src) == [op |-> "unmarshalBool", path |-> path, src |-> src]
StCreate(kind, path, arg, useNum, n) ==
    [op |-> "create", kind |-> kind, path |-> path, arg |-> arg, useNum |-> useNum, n |-> n]
StForNum(body) == [op |-> "forNum", body |-> body]
StDivideInt2(n, max) == [op |-> "divideInt2", n |-> n, max |-> max]
StDecodeDynamicLength(max) == [op |-> "decodeDynamicLength", max |-> max]
StUnmarshalDynamic(body) == [op |-> "unmarshalDynamic", body |-> body]
StCallUnmarshal(path, src) == [op |-> "callUnmarshal", path |-> path, src |-> src]
StGeneratorPanic(msg) == [op |-> "generatorPanic", msg |-> msg]

\* createSlice: the statement that sizes a list or vector before its loop
createSlice(v) ==
    LET useNum == v.sizeInBytes = 0
        e1 == v.elementType[1]
    IN CASE e1.sszValueType = TypeUint ->
                <<StCreate("Extend", v.fieldName, e1.valueSize, useNum, v.sizeInBytes)>>
         [] e1.sszValueType = TypeContainer ->
                <<StCreate("makePtr", v.fieldName, objRef(e1), useNum, v.sizeInBytes)>>
         [] e1.sszValueType = TypeBytes ->
                IF v.sizeIsVariable THEN <<>>
                ELSE IF e1.sizeIsVariable
                THEN <<StCreate("makeArr", v.fieldName, e1.sizeInBytes, useNum, v.sizeInBytes)>>
                ELSE <<StCreate("makeSlice", v.fieldName, "", useNum, v.sizeInBytes)>>
         [] OTHER -> <<StGeneratorPanic("create not implemented")>>

\* umarshalContainer(false, dst): the decoding of a record field
umarshalContainerField(v, dst) ==
    Emitted((IF ~v.noPtr THEN <<StNilInit(v.fieldName, objRef(v))>> ELSE <<>>)
            \o <<StCallUnmarshal(v.fieldName, dst)>>, v)

RECURSIVE emitUnmarshal(_, _)

\* the vector branch of unmarshal, un being the decoding of one element
unmarshalVectorDone(v, un) ==
    Emitted(createSlice(v) \o <<StForN(v.sizeInBytes, un.code)>>,
            [v EXCEPT !.elementType = <<un.v>>])

\* unmarshalList, the text; v has sizeInBytes 0 by now and maxSize is what
\* it held before
unmarshalListDone(v, maxSize, un) ==
    IF isFixed(v.elementType[1])
    THEN Emitted(<<StDivideInt2(v.elementType[1].valueSize, maxSize)>>
                 \o createSlice(v) \o <<StForNum(un.code)>>,
                 [v EXCEPT !.elementType = <<un.v>>])
    ELSE Emitted(<<StDecodeDynamicLength(maxSize)>> \o createSlice(v)
                 \o <<StUnmarshalDynamic(un.code)>>,
                 [v EXCEPT !.elementType = <<un.v>>])

\* the node unmarshalList works on: sizeInBytes set to 0 and, when the
\* elements are variable, the element named v.fieldName[indx]
unmarshalListNode(v) ==
    IF isFixed(v.elementType[1]) THEN [v EXCEPT !.sizeInBytes = 0]
    ELSE NameElem([v EXCEPT !.sizeInBytes = 0], "[indx]")

\* the vector branch of unmarshal when the elements are fixed, else
\* unmarshalList
unmarshalElems(v, dst, asVector, un) ==
    IF asVector THEN unmarshalVectorDone(v, un)
    ELSE unmarshalListDone(unmarshalListNode(v), v.sizeInBytes, un)

emitUnmarshal(v, dst) ==
    CASE v.sszValueType \in {TypeContainer, TypeReference} -> umarshalContainerField(v, dst)
      [] v.sszValueType = TypeBytes ->
            IF v.sizeIsVariable THEN Emitted(<<StCopy(v.fieldName, dst)>>, v)
            ELSE Emitted((IF v.sizeInBytes = 0 THEN <<StCheckLen(dst, v.maxSize)>> ELSE <<>>)
                         \o <<StAppendFrom(v.fieldName, dst)>>, v)
      [] v.sszValueType = TypeUint ->
            Emitted(<<StUnmarshalUint(v.valueSize, v.fieldName, dst,
                                      v.referencePackageAlias # "" \/ v.structName # "")>>, v)
      [] v.sszValueType = TypeBitList ->
            Emitted(<<StValidateBitlist(dst, v.maxSize), StAppendFrom(v.fieldName, dst)>>, v)
      [] v.sszValueType = TypeBool -> Emitted(<<StUnmarshalBool(v.fieldName, dst)>>, v)
      [] v.sszValueType \in {TypeVector, TypeList} ->
            IF v.sszValueType = TypeVector /\ ~isFixed(v.elementType[1])
            THEN Emitted(<<StGeneratorPanic("it cannot happen")>>, [v EXCEPT !.sizeInBytes = 0])
            ELSE unmarshalElems(v, dst, v.sszValueType = TypeVector,
                    emitUnmarshal(
                        IF v.sszValueType = TypeVector THEN v.elementType[1]
                        ELSE unmarshalListNode(v).elementType[1],
                        IF v.sszValueType = TypeVector THEN Chunk(dst, v.elementType[1].valueSize)
                        ELSE IF isFixed(v.elementType[1])
                        THEN Chunk(WholeBuf, v.elementType[1].valueSize)
                        ELSE WholeBuf))

\* unmarshalList, as umarshalContainer calls it for a variable field
unmarshalList(v) == emitUnmarshal(v, WholeBuf)

RECURSIVE offsetNamesFrom(_, _)
offsetNamesFrom(v, i) ==
    IF i > Len(v.fields) THEN <<>>
    ELSE (IF isFixed(v.fields[i]) THEN <<>> ELSE <<"o" \o Itoa(i - 1)>>) \o offsetNamesFrom(v, i + 1)

\* the names o<indx> of the offset variables, one per variable field
offsetNames(v) == offsetNamesFrom(v, 1)

RECURSIVE unmarshalFixedPart(_, _, _, _)

unmarshalFixedNext(v, i, o0, prev, one) ==
    Prepend(one.code, unmarshalFixedPart([v EXCEPT !.fields[i] = one.v], i + 1, o0, prev))

\* what the first loop writes for a fixed field: its decoding from dst
unmarshalFieldDone(i, un) == Emitted(<<StField(i - 1, un.v.fieldName, un.code)>>, un.v)

\* unmarshalFixedPart without the comparison of an offset to the one before
unmarshalFixedPartNoPrev(v, i, o0, prev) ==
    IF i > Len(v.fields) THEN Emitted(<<>>, v)
    ELSE IF isFixed(v.fields[i])
    THEN unmarshalFixedNext(v, i, o0 + v.fields[i].valueSize, prev,
            unmarshalFieldDone(i, emitUnmarshal(v.fields[i],
                                                BufRange(o0, o0 + v.fields[i].valueSize))))
    ELSE unmarshalFixedNext(v, i, o0 + 4, "",
            Emitted(<<StReadOffset(i - 1, v.fields[i].fieldName, "o" \o Itoa(i - 1),
                                   BufRange(o0, o0 + 4), "")>>, v.fields[i]))

\* the first loop of umarshalContainer(true): fixed fields and offset reads;
\* o0 is the byte cursor and prev the last offset variable declared so far
unmarshalFixedPart(v, i, o0, prev) ==
    IF i > Len(v.fields) THEN Emitted(<<>>, v)
    ELSE IF isFixed(v.fields[i])
    THEN unmarshalFixedNext(v, i, o0 + v.fields[i].valueSize, prev,
            unmarshalFieldDone(i, emitUnmarshal(v.fields[i],
                                                BufRange(o0, o0 + v.fields[i].valueSize))))
    ELSE unmarshalFixedNext(v, i, o0 + 4, "o" \o Itoa(i - 1),
            Emitted(<<StReadOffset(i - 1, v.fields[i].fieldName, "o" \o Itoa(i - 1),
                                   BufRange(o0, o0 + 4), prev)>>, v.fields[i]))

RECURSIVE unmarshalDynamicPart(_, _, _, _)

\* unmarshalDynamicNext with every block reading to the end of the tail
unmarshalDynamicNextOpenEnd(v, i, c, offsets, un) ==
    Prepend(<<StTail(i - 1, v.fields[i].fieldName, offsets[c + 1], "", un.code)>>,
            unmarshalDynamicPart([v EXCEPT !.fields[i] = un.v], i + 1, c + 1, offsets))

unmarshalDynamicNext(v, i, c, offsets, un) ==
    Prepend(<<StTail(i - 1, v.fields[i].fieldName, offsets[c + 1],
                     IF c = Len(offsets) - 1 THEN "" ELSE offsets[c + 2], un.code)>>,
            unmarshalDynamicPart([v EXCEPT !.fields[i] = un.v], i + 1, c + 1, offsets))

\* the second loop of umarshalContainer(true): one block per variable field,
\* decoding tail[from:to]; c counts the variable fields already written
unmarshalDynamicPart(v, i, c, offsets) ==
    IF i > Len(v.fields) THEN Emitted(<<>>, v)
    ELSE IF isFixed(v.fields[i]) THEN unmarshalDynamicPart(v, i + 1, c, offsets)
    ELSE unmarshalDynamicNext(v, i, c, offsets, emitUnmarshal(v.fields[i], WholeBuf))

\* umarshalContainerTail comparing with < whether the record is fixed or not
umarshalContainerTailLoose(v, a) ==
    Prepend(<<StSizeCheck("<", v.valueSize)>>
            \o (IF offsetNames(v) # <<>> THEN <<StDeclOffsets(offsetNames(v))>> ELSE <<>>)
            \o a.code,
            unmarshalDynamicPart(a.v, 1, 0, offsetNames(v)))

umarshalContainerTail(v, a) ==
    Prepend(<<StSizeCheck(IF isFixed(v) THEN "!=" ELSE "<", v.valueSize)>>
            \o (IF offsetNames(v) # <<>> THEN <<StDeclOffsets(offsetNames(v))>> ELSE <<>>)
            \o a.code,
            unmarshalDynamicPart(a.v, 1, 0, offsetNames(v)))

\* umarshalContainer(true, "buf"): the body of UnmarshalSSZ
umarshalContainer(v) == umarshalContainerTail(v, unmarshalFixedPart(v, 1, 0, ""))

unmarshal(v) == umarshalContainer(v)

-----------------------------------------------------------------------------
(* The hash emitter.                                                       *)

chunkSize == 32

StHashField(indx, name, body) == [op |-> "hashField", indx |-> indx, name |-> name, body |-> body]
StHashCall(path) == [op |-> "callHash", path |-> path]
StPutBytes(path) == [op |-> "putBytes", path |-> path]
StPutUint(bits, path, cast) == [op |-> "putUint", n |-> bits, path |-> path, cast |-> cast]
StPutBool(path) == [op |-> "putBool", path |-> path]
StPutBitlist(path, n) == [op |-> "putBitlist", path |-> path, n |-> n]
StHashRoots(path, outer, inner, merkleize) ==
    [op |-> "hashRoots", path |-> path, outer |-> outer, inner |-> inner, merkleize |-> merkleize]
StHashList(path, num) == [op |-> "hashList", path |-> path, n |-> num]
StHashContainer(body) == [op |-> "hashContainer", body |-> body]

nextChunkAlignment(n) ==
    IF n % chunkSize = 0 THEN n ELSE (n \div chunkSize) * chunkSize + chunkSize

\* hashRootsInner: the per-element statements of a list or vector of bytes
\* or integers: a length check, an optional padding, and the append
hashRootsInner(v, elem) ==
    LET e1 == v.elementType[1]
        pad == ~e1.sizeIsVariable /\ elem = TypeBytes
               /\ nextChunkAlignment(e1.sizeInBytes) # e1.sizeInBytes
    IN [ElemSize |-> e1.sizeInBytes,
        PadTo |-> IF pad THEN nextChunkAlignment(e1.sizeInBytes) ELSE 0,
        AppendFn |-> IF elem = TypeBytes THEN "Append" ELSE "AppendUint64",
        SubName |-> IF pad THEN "padded" ELSE IF e1.sizeIsVariable THEN "i[:]" ELSE "i"]

hashRoots(v, isList, elem) ==
    LET elemSize == IF elem = TypeBytes THEN 32 ELSE 8
        merkleize == IF isList
                     THEN [mixin |-> TRUE, fill |-> elem = TypeUint,
                           listSize |-> v.sizeInBytes, elemSize |-> elemSize]
                     ELSE [mixin |-> FALSE, fill |-> FALSE, listSize |-> 0, elemSize |-> 0]
    IN <<StHashRoots(v.fieldName, validate(v), hashRootsInner(v, elem), merkleize)>>

\* (v *Value) hashTreeRoot: the hashing of one field
emitHashTreeRoot(v) ==
    CASE v.sszValueType \in {TypeContainer, TypeReference} -> <<StHashCall(v.fieldName)>>
      [] v.sszValueType = TypeBytes ->
            validate(v) \o
            <<StPutBytes(IF v.sizeIsVariable THEN v.fieldName \o "[:]" ELSE v.fieldName)>>
      [] v.sszValueType = TypeUint ->
            <<StPutUint(v.valueSize * 8, v.fieldName,
                        v.referencePackageAlias # "" \/ v.structName # "")>>
      [] v.sszValueType = TypeBitList -> <<StPutBitlist(v.fieldName, v.maxSize)>>
      [] v.sszValueType = TypeBool -> <<StPutBool(v.fieldName)>>
      [] v.sszValueType = TypeVector -> hashRoots(v, FALSE, v.elementType[1].sszValueType)
      [] v.sszValueType = TypeList ->
            IF isFixed(v.elementType[1])
               /\ v.elementType[1].sszValueType \in {TypeUint, TypeBytes}
            THEN hashRoots(v, TRUE, v.elementType[1].sszValueType)
            ELSE <<StHashList(v.fieldName, v.maxSize)>>

\* hashTreeRootContainer(true): the body of HashTreeRootWith
hashTreeRootContainer(v) ==
    <<StHashContainer([i \in 1..Len(v.fields) |->
                          StHashField(i - 1, v.fields[i].fieldName, emitHashTreeRoot(v.fields[i]))])>>

hashTreeRoot(v) == Emitted(hashTreeRootContainer(v), v)

-----------------------------------------------------------------------------
(* The generator: parsePackage, generateIR, print and the output maps.     *)
(* Every "range" over a Go map takes the order of enumeration as an        *)
(* argument: the runtime chooses it afresh for each loop.                  *)

\* the directory listing parser.ParseDir reads: stat is "dir", "file" or
\* "missing"; dirName is path.Dir of the path given; entries maps a file
\* name to its package clause, its AST and whether it fails to parse;
\* fileName is the last element of a path that names a file
SourceDir(stat, dirName, entries) ==
    [stat |-> stat, dirName |-> dirName, entries |-> entries, fileName |-> ""]
SourceFile(dirName, fileName, entries) ==
    [stat |-> "file", dirName |-> dirName, entries |-> entries, fileName |-> fileName]
Entry(pkg, file) == [pkg |-> pkg, file |-> file, bad |-> FALSE]

filterSkipTests(fname) == ~HasSuffix(fname, "_test.go")

exactMatchFilter(filename, fname) == fname = filename

\* parser.ParseDir: the packages of the .go files the filter lets through
ParseDir(d) ==
    LET keep == {n \in DOMAIN d.entries :
                    /\ HasSuffix(n, ".go")
                    /\ IF d.stat = "dir" THEN filterSkipTests(n)
                       ELSE exactMatchFilter(d.dirName, n)}
        names == {d.entries[n].pkg : n \in keep}
    IN [pkgs |-> [k \in names |->
                    [Name |-> k,
                     Files |-> [n \in {m \in keep : d.entries[m].pkg = k} |-> d.entries[n].file]]],
        err |-> IF \E n \in keep : d.entries[n].bad THEN "syntax error" ELSE ""]

\* a Go map without the key k
Without(m, k) == [n \in DOMAIN m \ {k} |-> m[n]]

\* one iteration of the loop of parsePackage, for key k: the package goes if
\* a package k_test exists; its empty files go; the package goes if it has
\* no file left
filterPackage(pkgs, k, files) ==
    IF (k \o "_test") \in DOMAIN pkgs \/ DOMAIN files = {} THEN Without(pkgs, k)
    ELSE [pkgs EXCEPT ![k] = [Name |-> k, Files |-> files]]

RECURSIVE filterPackages(_, _, _)
\* the loop of parsePackage over pkgs, visiting the keys in the order ks
filterPackages(pkgs, ks, i) ==
    IF i > Len(ks) THEN pkgs
    ELSE filterPackages(
            filterPackage(pkgs, ks[i],
                          [n \in {m \in DOMAIN pkgs[ks[i]].Files : ~pkgs[ks[i]].Files[m].empty}
                             |-> pkgs[ks[i]].Files[n]]),
            ks, i + 1)

NoPackage == [Name |-> "", Files |-> EmptyMap]

\* parsePackage, the end: exactly one package must be left
onePackage(pkgs, err) ==
    IF Cardinality(DOMAIN pkgs) = 1
    THEN [pkg |-> pkgs[CHOOSE k \in DOMAIN pkgs : TRUE], err |-> err]
    ELSE [pkg |-> NoPackage,
          err |-> "sszgen only understands source directories with exactly one package"]

parsePackage(d, ks) ==
    IF d.stat = "missing" THEN [pkg |-> NoPackage, err |-> "stat: no such file"]
    ELSE onePackage(filterPackages(ParseDir(d).pkgs, ks, 1), ParseDir(d).err)

astStruct(d) ==
    [name |-> d.name, isStruct |-> d.isStruct, fields |-> d.fields, typ |-> d.typ,
     implFunc |-> FALSE, isRef |-> FALSE]

isSpecificFunc(funcDecl, in, out) == funcDecl.in = in /\ funcDecl.out = out

isFuncDecl(funcDecl) ==
    CASE funcDecl.name = "SizeSSZ" -> isSpecificFunc(funcDecl, <<>>, <<"int">>)
      [] funcDecl.name = "MarshalSSZTo" -> isSpecificFunc(funcDecl, <<"[]byte">>, <<"[]byte", "error">>)
      [] funcDecl.name = "UnmarshalSSZ" -> isSpecificFunc(funcDecl, <<"[]byte">>, <<"error">>)
      [] funcDecl.name = "HashTreeRootWith" -> isSpecificFunc(funcDecl, <<"*ssz.Hasher">>, <<"error">>)
      [] OTHER -> FALSE

\* decodeASTStruct: the type declarations of a file in source order, and the
\* receivers for which the file declares four of the interface methods
decodeASTStruct(file) ==
    LET funcRefs(n) == Cardinality({j \in 1..Len(file.funcs) :
                          /\ file.funcs[j].recv = n
                          /\ file.funcs[j].ptr
                          /\ isFuncDecl(file.funcs[j])})
    IN [objs |-> [i \in 1..Len(file.decls) |-> astStruct(file.decls[i])],
        funcs |-> {n \in {file.funcs[j].recv : j \in 1..Len(file.funcs)} : funcRefs(n) = 4}]

RECURSIVE importsFrom(_, _)
importsFrom(file, i) ==
    IF i > Len(file.imports) THEN <<>>
    ELSE (IF file.imports[i].alias = "_" THEN <<>> ELSE <<file.imports[i]>>)
         \o importsFrom(file, i + 1)

decodeASTImports(file) == importsFrom(file, 1)

RECURSIVE addStructsOverwrite(_, _, _, _)
\* addStructs without the test for a name that raw already holds
addStructsOverwrite(raw, objs, isRef, i) ==
    IF i > Len(objs) THEN [raw |-> raw, err |-> ""]
    ELSE addStructsOverwrite(Put(raw, objs[i].name, [objs[i] EXCEPT !.isRef = isRef]),
                             objs, isRef, i + 1)

RECURSIVE addStructs(_, _, _, _)
addStructs(raw, objs, isRef, i) ==
    IF i > Len(objs) THEN [raw |-> raw, err |-> ""]
    ELSE IF objs[i].name \in DOMAIN raw THEN [raw |-> raw, err |-> "two structs share the same name"]
    ELSE addStructs(Put(raw, objs[i].name, [objs[i] EXCEPT !.isRef = isRef]), objs, isRef, i + 1)

checkImplFunc(raw, funcs) ==
    IF \E n \in funcs : n \notin DOMAIN raw THEN [raw |-> raw, err |-> "cannot find struct"]
    ELSE [raw |-> [n \in DOMAIN raw |-> IF n \in funcs THEN [raw[n] EXCEPT !.implFunc = TRUE]
                                        ELSE raw[n]],
          err |-> ""]

RECURSIVE addImportsFirstWins(_, _, _)
\* addImports without the comparison of the aliases
addImportsFirstWins(have, imports, i) ==
    IF i > Len(imports) THEN [imports |-> have, err |-> ""]
    ELSE addImportsFirstWins(
            IF \E j \in 1..Len(have) : have[j].path = imports[i].path THEN have
            ELSE Append(have, imports[i]),
            imports, i + 1)

RECURSIVE addImports(_, _, _)
addImports(have, imports, i) ==
    IF i > Len(imports) THEN [imports |-> have, err |-> ""]
    ELSE LET same == {j \in 1..Len(have) : have[j].path = imports[i].path} IN
         IF \E j \in same : have[j].alias # imports[i].alias
         THEN [imports |-> have, err |-> "the same package is imported twice with different aliases"]
         ELSE addImports(IF same = {} THEN Append(have, imports[i]) ELSE have, imports, i + 1)

\* CodegenTargets: the names generateIR builds the IR for
CodegenTargets(raw, sszTypeNames) ==
    {name \in DOMAIN raw :
        /\ ~raw[name].isRef
        /\ (sszTypeNames # {} => name \in sszTypeNames)}

\* NewEnv
NewEnv(sourcePackage, referencePackages, sszTypeNames) ==
    [raw |-> EmptyMap, objs |-> EmptyMap, order |-> EmptyMap, imports |-> <<>>,
     sszTypeNames |-> sszTypeNames, sourcePackage |-> sourcePackage,
     referencePackages |-> referencePackages, err |-> ""]

MaxDepth == 6

RECURSIVE irImports(_, _, _)

irImportsNext(e, fo, i, got) ==
    IF got.err # "" THEN [e EXCEPT !.err = got.err]
    ELSE irImports([e EXCEPT !.imports = got.imports], fo, i + 1)

\* generateIR, first loop: the imports of the source files, in the order fo
irImports(e, fo, i) ==
    IF i > Len(fo) THEN e
    ELSE irImportsNext(e, fo, i,
                       addImports(e.imports, decodeASTImports(e.sourcePackage.Files[fo[i]]), 1))

\* e.order[name] = structOrdering
structOrdering(objs) == [j \in 1..Len(objs) |-> objs[j].name]

RECURSIVE irStructs(_, _, _)

irStructsNext(e, fo, i, objs, got) ==
    IF got.err # "" THEN [e EXCEPT !.err = got.err]
    ELSE irStructs([e EXCEPT !.raw = got.raw, !.order = Put(@, fo[i], structOrdering(objs))],
                   fo, i + 1)

irStructsAdd(e, fo, i, objs) == irStructsNext(e, fo, i, objs, addStructs(e.raw, objs, FALSE, 1))

\* generateIR, second loop: raw and order from the source files, in the order fo
irStructs(e, fo, i) ==
    IF i > Len(fo) THEN e
    ELSE irStructsAdd(e, fo, i, decodeASTStruct(e.sourcePackage.Files[fo[i]]).objs)

RECURSIVE irReferences(_, _, _)

irReferencesNext(e, ro, i, got) ==
    IF got.err # "" THEN [e EXCEPT !.err = got.err]
    ELSE irReferences([e EXCEPT !.raw = got.raw], ro, i + 1)

\* generateIR, third loop: raw from the files of the reference packages;
\* ro lists the pairs <<package, file>> in the order of the two nested loops
irReferences(e, ro, i) ==
    IF i > Len(ro) THEN e
    ELSE irReferencesNext(e, ro, i,
            addStructs(e.raw,
                       decodeASTStruct(e.referencePackages[ro[i][1]].Files[ro[i][2]]).objs,
                       TRUE, 1))

\* the pairs <<package, file>> of the reference packages
RefFiles(referencePackages) ==
    UNION {{<<k, n>> : n \in DOMAIN referencePackages[k].Files} : k \in DOMAIN referencePackages}

\* the receivers checkImplFunc is called with, over all astResults
allFuncs(e) ==
    UNION ({decodeASTStruct(e.sourcePackage.Files[n]).funcs : n \in DOMAIN e.sourcePackage.Files}
           \cup {decodeASTStruct(e.referencePackages[kn[1]].Files[kn[2]]).funcs :
                    kn \in RefFiles(e.referencePackages)})

RECURSIVE irTargets(_, _, _)

irTargetsNext(e, to, i, got) ==
    IF got.err # "" THEN [e EXCEPT !.objs = got.objs, !.err = got.err]
    ELSE irTargets([e EXCEPT !.objs = got.objs], to, i + 1)

\* generateIR, last loop: encodeItem for each codegen target, in the order to
irTargets(e, to, i) ==
    IF i > Len(to) THEN e
    ELSE irTargetsNext(e, to, i, encodeItem(e.raw, e.objs, to[i], NoTags, MaxDepth))

\* the orders in which the two nested loops can enumerate the reference
\* files: the files of one package come one after the other
RefOrders(referencePackages) ==
    {p \in Perms(RefFiles(referencePackages)) :
        \A i, j, k \in DOMAIN p : (i < j /\ j < k /\ p[i][1] = p[k][1]) => p[j][1] = p[i][1]}

tablesStructs(e1, fo2) == IF e1.err # "" THEN e1 ELSE irStructs(e1, fo2, 1)

tablesReferences(e2, ro) == IF e2.err # "" THEN e2 ELSE irReferences(e2, ro, 1)

tablesMarked(e3, got) == [e3 EXCEPT !.raw = got.raw, !.err = got.err]

tablesImplFunc(e3) ==
    IF e3.err # "" THEN e3 ELSE tablesMarked(e3, checkImplFunc(e3.raw, allFuncs(e3)))

\* generateIR up to checkImplFunc: the tables raw, order and imports.  fo1
\* and fo2 are the orders of the two loops over the source files, ro the
\* order of the loop over the reference files
generateTables(e0, fo1, fo2, ro) ==
    tablesImplFunc(tablesReferences(tablesStructs(irImports(e0, fo1, 1), fo2), ro))

\* generateIR from there on; to is the order in which CodegenTargets is
\* enumerated
generateTargets(e4, to) == IF e4.err # "" THEN e4 ELSE irTargets(e4, to, 1)

generateIR(e0, fo1, fo2, ro, to) == generateTargets(generateTables(e0, fo1, fo2, ro), to)

\* astImport.match and getFullName; base is filepath.Base of the path
importMatch(a, name) == IF a.alias # "" THEN a.alias = name ELSE a.base = name

getFullName(a) == IF a.alias # "" THEN a.alias \o " \"" \o a.path \o "\"" ELSE "\"" \o a.path \o "\""

find(imps, importName) ==
    LET hits == {i \in 1..Len(imps) : importMatch(imps[i], importName)} IN
    IF hits = {} THEN ""
    ELSE getFullName(imps[CHOOSE i \in hits : \A j \in hits : i <= j])

detectImports(v) ==
    LET ref(i) == CASE i.sszValueType = TypeReference ->
                            IF ~i.noPtr THEN i.referencePackageAlias ELSE ""
                    [] i.sszValueType \in {TypeList, TypeVector} ->
                            i.elementType[1].referencePackageAlias
                    [] OTHER -> i.referencePackageAlias
    IN {ref(v.fields[i]) : i \in 1..Len(v.fields)} \ {""}

\* crypto/sha256 followed by hex encoding, taken to be free of collisions
Sum256(content) == <<"sha256", content>>

\* format.Node of a parsed file: its canonical text, one text per AST
FormatNode(f) == <<f>>

\* hashSource: the hash of the files' texts, concatenated in the order ho
hashSource(e, ho) ==
    Sum256(Flatten([i \in 1..Len(ho) |-> FormatNode(e.sourcePackage.Files[ho[i]])]))

\* the four methods print writes for one record; the Obj literal calls the
\* emitters in the order hashTreeRoot, marshal, unmarshal, size, each on the
\* node as the one before left it
methodsSize(name, h, m, u, z) ==
    [name |-> name, HashTreeRoot |-> h.code, Marshal |-> m.code,
     Unmarshal |-> u.code, Size |-> z.code]

methodsUnmarshal(name, h, m, u) == methodsSize(name, h, m, u, size(u.v))

methodsMarshal(name, h, m) == methodsUnmarshal(name, h, m, unmarshal(m.v))

methodsHash(name, h) == methodsMarshal(name, h, marshal(h.v))

Methods(name, obj) == methodsHash(name, hashTreeRoot(obj))

RECURSIVE printObjs(_, _, _)
\* the loop of print over order, from name i on
printObjs(e, order, i) ==
    IF i > Len(order) THEN <<>>
    ELSE (IF order[i] \notin DOMAIN e.objs THEN <<>>
          ELSE IF isFixed(e.objs[order[i]]) /\ isBasicType(e.objs[order[i]]) THEN <<>>
          ELSE <<Methods(order[i], e.objs[order[i]])>>)
         \o printObjs(e, order, i + 1)

\* the set uniqImports that print collects for the records of order
uniqImports(e, order) ==
    UNION {detectImports(e.objs[order[i]]) :
             i \in {j \in 1..Len(order) : order[j] \in DOMAIN e.objs}}

\* the loop of print over uniqImports, enumerated in the order io
importsStr(e, io) ==
    Flatten([i \in 1..Len(io) |->
                IF find(e.imports, io[i]) # "" THEN <<find(e.imports, io[i])>> ELSE <<>>])

printText(e, objs, ho, io) ==
    IF objs = <<>> THEN [text |-> <<>>, ok |-> FALSE]
    ELSE [text |-> [hash |-> hashSource(e, ho), package |-> e.sourcePackage.Name,
                    imports |-> importsStr(e, io), objs |-> objs],
          ok |-> TRUE]

\* print: the text of one output file; ho is the order in which hashSource
\* enumerates the files, io the order in which uniqImports is enumerated
print(e, order, ho, io) == printText(e, printObjs(e, order, 1), ho, io)

\* format.Source on an output: gofmt sorts the import block and leaves the
\* comment that carries the hash as it is
FormatSource(text) == [text EXCEPT !.imports = Range(@)]

encodingPrefix == "_encoding.go"

\* filepath.Ext: the suffix from the last dot on
Ext(name) ==
    LET dots == {i \in 1..Len(name) : SubSeq(name, i, i) = "."} IN
    IF dots = {} THEN ""
    ELSE SubSeq(name, CHOOSE i \in dots : \A j \in dots : j <= i, Len(name))

TrimSuffix(name, suf) ==
    IF HasSuffix(name, suf) THEN SubSeq(name, 1, Len(name) - Len(suf)) ELSE name

\* outs[name] = vvv, unless a later iteration assigns the same name
encodingsPut(rest, name, vvv) ==
    IF vvv.ok /\ name \notin DOMAIN rest THEN Put(rest, name, vvv.text) ELSE rest

RECURSIVE encodingsFrom(_, _, _, _, _)
\* the loop of generateEncodings over e.order, in the order fo; hos and ios
\* give the enumeration orders of the print call made for each file
encodingsFrom(e, fo, hos, ios, i) ==
    IF i > Len(fo) THEN EmptyMap
    ELSE encodingsPut(encodingsFrom(e, fo, hos, ios, i + 1),
                      TrimSuffix(fo[i], Ext(fo[i])) \o encodingPrefix,
                      print(e, e.order[fo[i]], hos[fo[i]], ios[fo[i]]))

generateEncodings(e, fo, hos, ios) == encodingsFrom(e, fo, hos, ios, 1)

\* the characters of file names in the order of their byte values
ByteOrder == ".0123456789ABCDEFGHIJKLMNOPQRSTUVWXYZ_abcdefghijklmnopqrstuvwxyz"

ByteRank(c) == CHOOSE i \in 1..Len(ByteOrder) : SubSeq(ByteOrder, i, i) = c

RECURSIVE StringLess(_, _)
\* a < b on Go strings
StringLess(a, b) ==
    IF Len(b) = 0 THEN FALSE
    ELSE IF Len(a) = 0 THEN TRUE
    ELSE LET ca == ByteRank(SubSeq(a, 1, 1))
             cb == ByteRank(SubSeq(b, 1, 1))
         IN IF ca # cb THEN ca < cb
            ELSE StringLess(SubSeq(a, 2, Len(a)), SubSeq(b, 2, Len(b)))

\* sort.Strings on the keys of a map
sortStrings(S) ==
    CHOOSE p \in Perms(S) : \A i, j \in DOMAIN p : i < j => StringLess(p[i], p[j])

\* the order list generateOutputEncodings prints: the files' orders, the
\* files taken in sorted order
combinedOrder(e) ==
    Flatten([i \in 1..Cardinality(DOMAIN e.order) |-> e.order[sortStrings(DOMAIN e.order)[i]]])

outputMap(output, res) ==
    IF ~res.ok THEN [nil |-> TRUE, m |-> EmptyMap]
    ELSE [nil |-> FALSE, m |-> Put(EmptyMap, output, res.text)]

\* generateOutputEncodings: one text for all the files
generateOutputEncodings(e, output, ho, io) ==
    outputMap(output, print(e, combinedOrder(e), ho, io))

-----------------------------------------------------------------------------
(* The inputs of the generator runs: small packages that between them      *)
(* exercise several files, a target list, a record that already has its    *)
(* methods, a reference package, and the failures of every stage.          *)

Max(ssz) == <<Tok("ssz-max", IntVal(ssz))>>
Size(ssz) == <<Tok("ssz-size", IntVal(ssz))>>

DeclA == StructDecl("A", <<Field("X", Ident("uint16"), NoTags),
                           Field("Y", Arr(2, Ident("byte")), NoTags)>>)
DeclB == StructDecl("B", <<Field("In", Star(Ident("A")), NoTags),
                           Field("Data", Arr(0, Ident("byte")), Max(2))>>)
DeclI == StructDecl("I", <<Field("N", Ident("uint16"), NoTags)>>)
DeclT == StructDecl("T", <<Field("Ref", Star(Ident("I")), Size(2)),
                           Field("Tag", Ident("uint16"), NoTags)>>)
DeclR == StructDecl("R", <<Field("Z", Ident("uint8"), NoTags)>>)
DeclQ == StructDecl("Q", <<Field("F", Star(Sel("dep", "R")), NoTags),
                           Field("Data", Arr(0, Ident("byte")), Max(1))>>)
DeclU == TypeDecl("U", Ident("uint64"))
DeclBad == StructDecl("W", <<Field("Data", Arr(0, Ident("byte")), NoTags)>>)

\* the four methods of the SSZ interface, on receiver *r
FourMethods(r) ==
    <<Method(r, TRUE, "SizeSSZ", <<>>, <<"int">>),
      Method(r, TRUE, "MarshalSSZTo", <<"[]byte">>, <<"[]byte", "error">>),
      Method(r, TRUE, "UnmarshalSSZ", <<"[]byte">>, <<"error">>),
      Method(r, TRUE, "HashTreeRootWith", <<"*ssz.Hasher">>, <<"error">>)>>

DirAB == SourceDir("dir", ".", [n \in {"a.go", "b.go"} |->
            IF n = "a.go" THEN Entry("p", File(<<DeclA>>, <<>>, <<>>))
            ELSE Entry("p", File(<<DeclB>>, <<>>, <<>>))])
DirIT == SourceDir("dir", ".", [n \in {"i.go"} |->
            Entry("p", File(<<DeclI, DeclT>>, FourMethods("I"), <<>>))])
DirQ == SourceDir("dir", ".", [n \in {"q.go"} |->
            Entry("p", File(<<DeclQ>>, <<>>, <<Import("", "example.com/dep", "dep")>>))])
DirDep == SourceDir("dir", "dep", [n \in {"r.go"} |-> Entry("dep", File(<<DeclR>>, <<>>, <<>>))])
DirTwoPackages == SourceDir("dir", ".", [n \in {"a.go", "m.go"} |->
            IF n = "a.go" THEN Entry("p", File(<<DeclA>>, <<>>, <<>>))
            ELSE Entry("main", File(<<DeclU>>, <<>>, <<>>))])
DirDuplicate == SourceDir("dir", ".", [n \in {"a.go", "b.go"} |->
            Entry("p", File(<<DeclA>>, <<>>, <<>>))])
DirAlias == SourceDir("dir", ".", [n \in {"u.go"} |-> Entry("p", File(<<DeclU>>, <<>>, <<>>))])
DirBadTag == SourceDir("dir", ".", [n \in {"a.go", "w.go"} |->
            IF n = "a.go" THEN Entry("p", File(<<DeclA>>, <<>>, <<>>))
            ELSE Entry("p", File(<<DeclBad>>, <<>>, <<>>))])
DirMissing == SourceDir("missing", ".", EmptyMap)
DeclN == StructDecl("N", <<Field("Items", Arr(0, Star(Ident("A"))), Max(2))>>)
DirAN == SourceDir("dir", ".", [n \in {"n.go"} |-> Entry("p", File(<<DeclA, DeclN>>, <<>>, <<>>))])

\* one run's arguments and the files the file system refuses to write
Args(source, deps, names, output, unwritable) ==
    [source |-> source, deps |-> deps, sszTypeNames |-> names, output |-> output,
     unwritable |-> unwritable]

Inputs ==
    {Args(DirAB, <<>>, names, output, unwritable) :
        names \in {{}, {"B"}}, output \in {"", "out.go"},
        unwritable \in {{}, {"a_encoding.go"}, {"b_encoding.go"}, {"out.go"}}}
    \cup {Args(DirIT, <<>>, names, output, {}) :
            names \in {{}, {"T"}, {"I"}}, output \in {"", "out.go"}}
    \cup {Args(DirQ, <<DirDep>>, {}, output, {}) : output \in {"", "out.go"}}
    \cup {Args(d, <<>>, {}, output, {}) :
            d \in {DirTwoPackages, DirDuplicate, DirAlias, DirBadTag, DirMissing},
            output \in {"", "out.go"}}
    \cup {Args(DirAB, <<DirMissing>>, {}, "", {}), Args(DirAN, <<>>, {}, "", {})}

-----------------------------------------------------------------------------
(* Specification SpecGen: Generate, run twice over the same input.  The    *)
(* second run starts when the first has returned; each run has its own     *)
(* env, its own map `out` and its own view of the files it has written.    *)

Runs == {1, 2}

NoOut == [nil |-> TRUE, m |-> EmptyMap]

\* main has not returned and has printed nothing
MainRunning == gexit = [r \in Runs |-> -1] /\ gstdout = [r \in Runs |-> <<>>]

\* no emitter is run apart from print
EmitIdle == emit = <<>> /\ lookup = <<>>

\* the methods' variables, which the generator runs do not touch
RuntimeIdle ==
    /\ mty = "" /\ mrecv = <<>> /\ mrecv0 = <<>> /\ mbuf = <<>> /\ mdst = <<>>
    /\ msize = -1 /\ moffs = <<>> /\ mhh = <<>> /\ mpc = "idle" /\ mres = "" /\ morig = <<>>

InitGen ==
    /\ input \in Inputs
    /\ gpc = [r \in Runs |-> "start"]
    /\ genv = [r \in Runs |-> NewEnv(NoPackage, EmptyMap, {})]
    /\ gout = [r \in Runs |-> NoOut]
    /\ gtodo = [r \in Runs |-> {}]
    /\ gdisk = [r \in Runs |-> EmptyMap]
    /\ gerr = [r \in Runs |-> ""]
    /\ MainRunning
    /\ RuntimeIdle
    /\ EmitIdle

Turn(r, at) == gpc[r] = at /\ (r = 1 \/ gpc[1] = "done")

\* Generate returns err
Fail(r, err) ==
    /\ gerr' = [gerr EXCEPT ![r] = err]
    /\ gpc' = [gpc EXCEPT ![r] = "done"]

RECURSIVE parseDependencies(_, _, _, _)

parseDependenciesNext(deps, kss, i, refs, got) ==
    IF got.err # "" THEN [refs |-> refs, err |-> got.err]
    ELSE parseDependencies(deps, kss, i + 1, Put(refs, got.pkg.Name, got.pkg))

\* the loop of Generate over dependencyPaths, from path i on; kss[i] is the
\* order in which parsePackage enumerates the packages of path i
parseDependencies(deps, kss, i, refs) ==
    IF i > Len(deps) THEN [refs |-> refs, err |-> ""]
    ELSE parseDependenciesNext(deps, kss, i, refs, parsePackage(deps[i], kss[i]))

PackageOrders(d) == Perms(DOMAIN ParseDir(d).pkgs)

DependencyOrders(deps) ==
    {f \in [1..Len(deps) -> UNION {PackageOrders(d) : d \in Range(deps)}] :
        \A i \in 1..Len(deps) : f[i] \in PackageOrders(deps[i])}

GenerateParsed(r, src, refs) ==
    IF src.err # "" THEN Fail(r, src.err) /\ UNCHANGED genv
    ELSE IF refs.err # "" THEN Fail(r, refs.err) /\ UNCHANGED genv
    ELSE /\ genv' = [genv EXCEPT ![r] = NewEnv(src.pkg, refs.refs, input.sszTypeNames)]
         /\ gpc' = [gpc EXCEPT ![r] = "parsed"]
         /\ UNCHANGED gerr

\* Generate, step 1: parsePackage on the source path and on each dependency
\* path, then NewEnv
GenerateParse(r) ==
    /\ Turn(r, "start")
    /\ \E ks \in PackageOrders(input.source) :
       \E kss \in DependencyOrders(input.deps) :
          GenerateParsed(r, parsePackage(input.source, ks),
                         parseDependencies(input.deps, kss, 1, EmptyMap))
    /\ UNCHANGED <<input, gout, gtodo, gdisk, gexit, gstdout, rvars, evars>>

GenerateIRDone(r, e) ==
    /\ genv' = [genv EXCEPT ![r] = e]
    /\ IF e.err # "" THEN Fail(r, e.err)
       ELSE gpc' = [gpc EXCEPT ![r] = "ir"] /\ UNCHANGED gerr

GenerateIRTargets(r, tab) ==
    \E to \in Perms(IF tab.err = "" THEN CodegenTargets(tab.raw, tab.sszTypeNames) ELSE {}) :
        GenerateIRDone(r, generateTargets(tab, to))

\* Generate, step 2: generateIR
GenerateIR(r) ==
    /\ Turn(r, "parsed")
    /\ \E fo1 \in Perms(DOMAIN genv[r].sourcePackage.Files) :
       \E fo2 \in Perms(DOMAIN genv[r].sourcePackage.Files) :
       \E ro \in RefOrders(genv[r].referencePackages) :
          GenerateIRTargets(r, generateTables(genv[r], fo1, fo2, ro))
    /\ UNCHANGED <<input, gout, gtodo, gdisk, gexit, gstdout, rvars, evars>>

\* the enumeration orders of uniqImports, one for the print call of each file
ImportOrders(e) ==
    {f \in [DOMAIN e.order -> UNION {Perms(uniqImports(e, e.order[n])) : n \in DOMAIN e.order}] :
        \A n \in DOMAIN e.order : f[n] \in Perms(uniqImports(e, e.order[n]))}

\* the maps `out` the two output modes can produce from the env e
Outputs(e, output) ==
    IF output = ""
    THEN {[nil |-> FALSE, m |-> generateEncodings(e, fo, hos, ios)] :
            fo \in Perms(DOMAIN e.order),
            hos \in [DOMAIN e.order -> Perms(DOMAIN e.sourcePackage.Files)],
            ios \in ImportOrders(e)}
    ELSE {generateOutputEncodings(e, output, ho, io) :
            ho \in Perms(DOMAIN e.sourcePackage.Files),
            io \in Perms(uniqImports(e, combinedOrder(e)))}

\* the node of e.objs the four emitters were called on, as the last of
\* them left it: they work on the node itself, not on a copy
EmittedNode(obj) == size(unmarshal(marshal(hashTreeRoot(obj).v).v).v).v

\* the names print calls the emitters for, over all the files
Printed(e) ==
    {n \in DOMAIN e.objs :
        /\ \E f \in DOMAIN e.order : n \in Range(e.order[f])
        /\ ~(isFixed(e.objs[n]) /\ isBasicType(e.objs[n]))}

\* e.objs once generateEncodings or generateOutputEncodings has returned
objsAfterEmit(e) ==
    [n \in DOMAIN e.objs |-> IF n \in Printed(e) THEN EmittedNode(e.objs[n]) ELSE e.objs[n]]

\* Generate, step 3: generateEncodings or generateOutputEncodings, and the
\* test for an empty output
GenerateEmit(r) ==
    /\ Turn(r, "ir")
    /\ \E out \in Outputs(genv[r], input.output) :
          IF out.nil THEN Fail(r, "No files to generate") /\ UNCHANGED <<gout, gtodo>>
          ELSE /\ gout' = [gout EXCEPT ![r] = out]
               /\ gtodo' = [gtodo EXCEPT ![r] = DOMAIN out.m]
               /\ gpc' = [gpc EXCEPT ![r] = "writing"]
               /\ UNCHANGED gerr
    /\ genv' = [genv EXCEPT ![r].objs = objsAfterEmit(genv[r])]
    /\ UNCHANGED <<input, gdisk, gexit, gstdout, rvars, evars>>

\* Generate, step 4, one iteration of the loop over `out`: format.Source and
\* ioutil.WriteFile for one entry, in whatever order the map is enumerated
GenerateWrite(r) ==
    /\ Turn(r, "writing")
    /\ \E name \in gtodo[r] :
          IF name \in input.unwritable
          THEN Fail(r, "open: permission denied") /\ UNCHANGED <<gtodo, gdisk>>
          ELSE /\ gdisk' = [gdisk EXCEPT ![r] = Put(@, name, FormatSource(gout[r].m[name]))]
               /\ gtodo' = [gtodo EXCEPT ![r] = @ \ {name}]
               /\ UNCHANGED <<gpc, gerr>>
    /\ UNCHANGED <<input, genv, gout, gexit, gstdout, rvars, evars>>

\* Generate, the return after the loop
GenerateReturn(r) ==
    /\ Turn(r, "writing")
    /\ gtodo[r] = {}
    /\ gpc' = [gpc EXCEPT ![r] = "done"]
    /\ UNCHANGED <<input, genv, gout, gtodo, gdisk, gerr, gexit, gstdout, rvars, evars>>

\* fmt.Printf("[ERR]: %v", err): the text written to standard output
Printf(err) == "[ERR]: " \o err

\* main after Generate has returned: it prints the error, if there is one,
\* and returns, which ends the process with status 0
MainReturn(r) ==
    /\ gpc[r] = "done" /\ gexit[r] = -1
    /\ gstdout' = [gstdout EXCEPT ![r] = IF gerr[r] # "" THEN <<Printf(gerr[r])>> ELSE <<>>]
    /\ gexit' = [gexit EXCEPT ![r] = 0]
    /\ UNCHANGED <<input, gpc, genv, gout, gtodo, gdisk, gerr, rvars, evars>>

NextGen ==
    \E r \in Runs :
        \/ GenerateParse(r)
        \/ GenerateIR(r)
        \/ GenerateEmit(r)
        \/ GenerateWrite(r)
        \/ GenerateReturn(r)
        \/ MainReturn(r)

SpecGen == InitGen /\ [][NextGen]_vars

-----------------------------------------------------------------------------
(* Properties of the generator runs.                                       *)

Returned(r) == gpc[r] = "done"

\* the records for which the map `out` of run r holds methods
EmittedNames(r) ==
    UNION {{gout[r].m[f].objs[i].name : i \in DOMAIN gout[r].m[f].objs} : f \in DOMAIN gout[r].m}

\* C1: all-or-nothing output.  A run of Generate that returns an error has
\* written no output file.
C1_AllOrNothing ==
    \A r \in Runs : (Returned(r) /\ gerr[r] # "") => DOMAIN gdisk[r] = {}

\* C8: a record of the primary package that declares the four SSZ methods
\* is never re-emitted: the map `out` holds no methods for a record whose
\* raw entry is marked implFunc.
C8_ImplFuncNeverEmitted ==
    \A r \in Runs : \A n \in EmittedNames(r) : ~genv[r].raw[n].implFunc

\* C9: methods are emitted only for eligible records: never for a record of
\* a reference package and, when a target list is given, never for a record
\* that the list does not name.
C9_OnlyTargetsEmitted ==
    \A r \in Runs : \A n \in EmittedNames(r) :
        /\ ~genv[r].raw[n].isRef
        /\ (input.sszTypeNames # {} => n \in input.sszTypeNames)

\* C10: determinism.  Two runs over the same input that both return without
\* an error have written the same files with the same contents, the hash
\* comment included.
C10_Deterministic ==
    (Returned(1) /\ Returned(2) /\ gerr[1] = "" /\ gerr[2] = "") => gdisk[1] = gdisk[2]

-----------------------------------------------------------------------------
(* The values the emitted methods work on.  An integer field is a number,  *)
(* a byte slice or array a sequence of bytes, a list a sequence, and a     *)
(* pointer to a record either nil or the record's fields by name; both     *)
(* carry the record type the pointer is declared with.                     *)

RNil(ty) == [nil |-> TRUE, ty |-> ty, f |-> EmptyMap]
RPtr(ty, f) == [nil |-> FALSE, ty |-> ty, f |-> f]

Zeros(n) == [i \in 1..n |-> 0]

\* the zero value Go gives a field of the IR node v
ZeroOf(v) ==
    CASE v.sszValueType = TypeUint -> 0
      [] v.sszValueType = TypeBool -> FALSE
      [] v.sszValueType \in {TypeBytes, TypeBitVector, TypeBitList} ->
            IF v.sizeIsVariable THEN Zeros(v.sizeInBytes) ELSE <<>>
      [] v.sszValueType \in {TypeContainer, TypeReference} -> RNil(objRef(v))
      [] v.sszValueType \in {TypeList, TypeVector} -> <<>>

\* new(T) for the record type named ty
NewRec(objs, ty) ==
    RPtr(ty, [n \in {objs[ty].fields[i].fieldName : i \in 1..Len(objs[ty].fields)} |->
                ZeroOf(objs[ty].fields[CHOOSE i \in 1..Len(objs[ty].fields) :
                                           objs[ty].fields[i].fieldName = n])])

\* binary.LittleEndian: the n bytes of x, and the number a byte string holds
LE(x, n) == [i \in 1..n |-> (x \div (256 ^ (i - 1))) % 256]

RECURSIVE SumLE(_)
SumLE(b) == IF b = <<>> THEN 0 ELSE Head(b) + 256 * SumLE(Tail(b))

\* the numbers from 2^31 on are all held as 2^31 - 1: they exceed every
\* length and every bound of the model alike
Huge == 127 * (256 ^ 3) + (256 ^ 3 - 1)

FromLE(b) ==
    IF \E i \in 4..Len(b) : (i = 4 /\ b[i] >= 128) \/ (i > 4 /\ b[i] # 0) THEN Huge
    ELSE SumLE(SubSeq(b, 1, IF Len(b) < 4 THEN Len(b) ELSE 4))

\* the local variables of one method call: the receiver, dst and hh as the
\* call has them, the counters offset and size, the error to return, and
\* the variables buf, tail, size, o<i>, num, ii, indx of UnmarshalSSZ
Frame(recv) ==
    [recv |-> recv, dst |-> <<>>, hh |-> <<>>, ctr |-> [c \in {"offset", "size"} |-> 0],
     err |-> "", buf |-> <<>>, tail |-> <<>>, size |-> 0, offs |-> EmptyMap,
     num |-> 0, ii |-> 0, indx |-> 0]

NilDereference == "panic: nil pointer dereference"
IndexOutOfRange == "panic: index out of range"
SliceOutOfRange == "panic: slice bounds out of range"
Faults == {NilDereference, IndexOutOfRange, SliceOutOfRange}

\* a path of the templates: the field, and the index written after it
PathIndex(path) ==
    IF HasSuffix(path, "[ii]") THEN "[ii]"
    ELSE IF HasSuffix(path, "[indx]") THEN "[indx]"
    ELSE IF HasSuffix(path, "[:]") THEN "[:]"
    ELSE ""

PathField(path) == TrimSuffix(path, PathIndex(path))

PathAt(st, path) == IF PathIndex(path) = "[ii]" THEN st.ii ELSE st.indx

Indexed(path) == PathIndex(path) \in {"[ii]", "[indx]"}

\* what evaluating receiver.path does when it cannot yield a value
PathFault(st, path) ==
    IF st.recv.nil THEN NilDereference
    ELSE IF Indexed(path) /\ PathAt(st, path) >= Len(st.recv.f[PathField(path)])
    THEN IndexOutOfRange
    ELSE ""

Get(st, path) ==
    IF Indexed(path) THEN st.recv.f[PathField(path)][PathAt(st, path) + 1]
    ELSE st.recv.f[PathField(path)]

Set(st, path, x) ==
    IF Indexed(path)
    THEN [st EXCEPT !.recv.f[PathField(path)][PathAt(st, path) + 1] = x]
    ELSE [st EXCEPT !.recv.f[PathField(path)] = x]

Raise(st, err) == [st EXCEPT !.err = err]

RECURSIVE ChunkOf(_, _, _, _)
\* b[ii*k : (ii+1)*k] for each chunk size k of ks in turn
ChunkOf(b, ks, ii, i) ==
    IF i > Len(ks) THEN [ok |-> TRUE, b |-> b]
    ELSE IF (ii + 1) * ks[i] > Len(b) THEN [ok |-> FALSE, b |-> <<>>]
    ELSE ChunkOf(SubSeq(b, ii * ks[i] + 1, (ii + 1) * ks[i]), ks, ii, i + 1)

\* the slice expression src, evaluated on the frame's buf
SliceOf(st, src) ==
    IF src.ranged /\ src.hi > Len(st.buf) THEN [ok |-> FALSE, b |-> <<>>]
    ELSE ChunkOf(IF src.ranged THEN SubSeq(st.buf, src.lo + 1, src.hi) ELSE st.buf,
                 src.chunks, st.ii, 1)

-----------------------------------------------------------------------------
(* The helpers of the SSZ runtime library that the emitted code calls.     *)

\* ssz.DivideInt2(a, b, max): a/b when b divides a and the quotient is at
\* most max
DivideInt2(a, b, max) ==
    IF a % b # 0 THEN [n |-> 0, err |-> "errDivideInt"]
    ELSE IF a \div b > max THEN [n |-> 0, err |-> "errListTooBig"]
    ELSE [n |-> a \div b, err |-> ""]

\* ssz.DecodeDynamicLength(buf, max): the number of elements the first
\* offset of buf announces
DecodeDynamicLength(buf, max) ==
    IF Len(buf) = 0 THEN [n |-> 0, err |-> ""]
    ELSE IF Len(buf) < 4 THEN [n |-> 0, err |-> "errDecodeDynamicLength"]
    ELSE IF buf[1] % bytesPerLengthOffset # 0
    THEN [n |-> 0, err |-> "errDivideInt"]
    ELSE IF FromLE(SubSeq(buf, 1, 4)) \div bytesPerLengthOffset > max
    THEN [n |-> 0, err |-> "errListTooBig"]
    ELSE [n |-> FromLE(SubSeq(buf, 1, 4)) \div bytesPerLengthOffset, err |-> ""]

\* the offset UnmarshalDynamic reads for element k (from 0) of length
\* elements: the k-th entry of the table, the end of src after the last
DynamicOffset(src, length, k) ==
    IF k = length THEN [ok |-> TRUE, o |-> Len(src)]
    ELSE IF 4 * (k + 1) > Len(src) THEN [ok |-> FALSE, o |-> 0]
    ELSE [ok |-> TRUE, o |-> FromLE(SubSeq(src, 4 * k + 1, 4 * k + 4))]

\* ssz.ValidateBitlist(buf, bitLimit): the last byte holds the length bit
\* and the bits before it number at most bitLimit
RECURSIVE MostSignificantBit(_)
MostSignificantBit(x) == IF x <= 1 THEN x ELSE 1 + MostSignificantBit(x \div 2)

ValidateBitlist(buf, bitLimit) ==
    IF Len(buf) = 0 THEN "errBitlistEmpty"
    ELSE IF buf[Len(buf)] = 0 THEN "errBitlistTrailingByte"
    ELSE IF 8 * (Len(buf) - 1) + MostSignificantBit(buf[Len(buf)]) - 1 > bitLimit
    THEN "errBitlistTooLong"
    ELSE ""

\* ssz.ExtendUint<N>(b, needLen): b cut or zero-filled to needLen entries
ExtendUint(b, needLen) == [i \in 1..needLen |-> IF i <= Len(b) THEN b[i] ELSE 0]

\* hh.Merkleize(indx) and its variants: what the hasher holds from indx on
\* becomes one node
Merkleize(hh, indx, how) ==
    SubSeq(hh, 1, indx) \o <<[node |-> SubSeq(hh, indx + 1, Len(hh)), how |-> how]>>

-----------------------------------------------------------------------------
(* The emitted statements, executed.  prog holds the IR (objs) and the     *)
(* four method bodies of every record (methods); a body runs on a frame    *)
(* and stops at the first statement that sets err.                         *)

RECURSIVE ExecSeq(_, _, _)
RECURSIVE ExecOne(_, _, _)
RECURSIVE Loop(_, _, _, _, _)
RECURSIVE CallMethod(_, _, _, _)
RECURSIVE UnmarshalDynamic(_, _, _, _, _)
RECURSIVE HashListFrom(_, _, _, _, _)

\* the frame a method starts with: MarshalSSZTo(buf) has dst = buf,
\* UnmarshalSSZ(buf) has buf, HashTreeRootWith(hh) has hh
Enter(method, recv, arg) ==
    [Frame(recv) EXCEPT !.dst = IF method = "Marshal" THEN arg ELSE <<>>,
                        !.buf = IF method = "Unmarshal" THEN arg ELSE <<>>,
                        !.hh = IF method = "HashTreeRoot" THEN arg ELSE <<>>]

\* receiver.path.<method>(arg): the callee's frame when it returns
CallMethod(prog, method, recv, arg) ==
    ExecSeq(prog, prog.methods[recv.ty][method], Enter(method, recv, arg))

ExecSeq(prog, code, st) ==
    IF code = <<>> \/ st.err # "" THEN st
    ELSE ExecSeq(prog, Tail(code), ExecOne(prog, Head(code), st))

\* for ii := k; ii < n; ii++ { body }
Loop(prog, body, st, k, n) ==
    IF k >= n \/ st.err # "" THEN st
    ELSE Loop(prog, body, ExecSeq(prog, body, [st EXCEPT !.ii = k]), k + 1, n)

\* the caller's frame after a call on receiver.path returned the frame child
marshalReturned(st, path, child) ==
    [Set(st, path, child.recv) EXCEPT !.dst = child.dst, !.err = child.err]

sizeReturned(st, path, ctr, child) ==
    [Set(st, path, child.recv) EXCEPT !.ctr[ctr] = @ + child.ctr["size"], !.err = child.err]

unmarshalReturned(st, path, child) == [Set(st, path, child.recv) EXCEPT !.err = child.err]

hashReturned(st, path, child) ==
    [Set(st, path, child.recv) EXCEPT !.hh = child.hh, !.err = child.err]

opValidate(s, st) ==
    IF PathFault(st, s.path) # "" THEN Raise(st, PathFault(st, s.path))
    ELSE IF s.cmp = ">" /\ Len(Get(st, s.path)) > s.n THEN Raise(st, s.err)
    ELSE IF s.cmp = "!=" /\ Len(Get(st, s.path)) # s.n THEN Raise(st, s.err)
    ELSE st

\* dst = append(dst, bytes...) with bytes read from receiver.path
opAppendTo(s, st, bytes) ==
    IF PathFault(st, s.path) # "" THEN Raise(st, PathFault(st, s.path))
    ELSE [st EXCEPT !.dst = @ \o bytes]

opNilInit(prog, s, st) ==
    IF PathFault(st, s.path) # "" THEN Raise(st, PathFault(st, s.path))
    ELSE IF Get(st, s.path).nil THEN Set(st, s.path, NewRec(prog.objs, s.structName))
    ELSE st

opCall(prog, s, st) ==
    IF PathFault(st, s.path) # "" THEN Raise(st, PathFault(st, s.path))
    ELSE CASE s.op = "callMarshal" ->
                marshalReturned(st, s.path, CallMethod(prog, "Marshal", Get(st, s.path), st.dst))
           [] s.op = "callSize" ->
                sizeReturned(st, s.path, s.ctr, CallMethod(prog, "Size", Get(st, s.path), <<>>))
           [] s.op = "callHash" ->
                hashReturned(st, s.path, CallMethod(prog, "HashTreeRoot", Get(st, s.path), st.hh))

opCtrAddLen(s, st) ==
    IF PathFault(st, s.path) # "" THEN Raise(st, PathFault(st, s.path))
    ELSE IF s.op = "offsetSet4Len"
    THEN [st EXCEPT !.ctr["offset"] = 4 * Len(Get(st, s.path))]
    ELSE [st EXCEPT !.ctr[s.ctr] = @ + Len(Get(st, s.path)) * s.mul]

opForLen(prog, s, st) ==
    IF PathFault(st, s.path) # "" THEN Raise(st, PathFault(st, s.path))
    ELSE [Loop(prog, s.body, st, 0, Len(Get(st, s.path))) EXCEPT !.ii = st.ii]

opSizeCheck(s, st) ==
    IF s.cmp = "!=" /\ Len(st.buf) # s.n THEN Raise([st EXCEPT !.size = Len(st.buf)], "ErrSize")
    ELSE IF s.cmp = "<" /\ Len(st.buf) < s.n THEN Raise([st EXCEPT !.size = Len(st.buf)], "ErrSize")
    ELSE [st EXCEPT !.size = Len(st.buf)]

\* if o = ssz.ReadOffset(src); o > size || prev > o { return ssz.ErrOffset }
opReadOffset(s, st, src) ==
    IF ~src.ok THEN Raise(st, SliceOutOfRange)
    ELSE IF FromLE(src.b) > st.size \/ (s.more # "" /\ st.offs[s.more] > FromLE(src.b))
    THEN Raise([st EXCEPT !.offs[s.offset] = FromLE(src.b)], "ErrOffset")
    ELSE [st EXCEPT !.offs[s.offset] = FromLE(src.b)]

\* { buf = tail[from:to]; body }
opTail(prog, s, st, to) ==
    IF st.offs[s.from] > to \/ to > Len(st.tail) THEN Raise(st, SliceOutOfRange)
    ELSE ExecSeq(prog, s.body, [st EXCEPT !.buf = SubSeq(st.tail, st.offs[s.from] + 1, to)])

\* the statements that store what they read from the slice src
opStore(prog, s, st, src) ==
    IF ~src.ok THEN Raise(st, SliceOutOfRange)
    ELSE IF s.op = "checkLen"
    THEN (IF Len(src.b) > s.max THEN Raise(st, "ErrBytesLength") ELSE st)
    ELSE IF s.op = "validateBitlist"
    THEN Raise(st, ValidateBitlist(src.b, s.n))
    ELSE IF PathFault(st, s.path) # "" THEN Raise(st, PathFault(st, s.path))
    ELSE CASE s.op = "copy" ->
                Set(st, s.path, [i \in 1..Len(Get(st, s.path)) |->
                                    IF i <= Len(src.b) THEN src.b[i] ELSE Get(st, s.path)[i]])
           [] s.op = "appendFrom" -> Set(st, s.path, Get(st, s.path) \o src.b)
           [] s.op = "unmarshalUint" -> Set(st, s.path, FromLE(src.b))
           [] s.op = "unmarshalBool" -> Set(st, s.path, src.b = <<1>>)
           [] s.op = "callUnmarshal" ->
                unmarshalReturned(st, s.path,
                                  CallMethod(prog, "Unmarshal", Get(st, s.path), src.b))

\* createSlice, executed for n elements
opCreate(s, st, n) ==
    IF PathFault(st, s.path) # "" THEN Raise(st, PathFault(st, s.path))
    ELSE CASE s.kind = "Extend" -> Set(st, s.path, ExtendUint(Get(st, s.path), n))
           [] s.kind = "makePtr" -> Set(st, s.path, [i \in 1..n |-> RNil(s.arg)])
           [] s.kind = "makeArr" -> Set(st, s.path, [i \in 1..n |-> Zeros(s.arg)])
           [] s.kind = "makeSlice" -> Set(st, s.path, [i \in 1..n |-> <<>>])

\* num, err := ssz.DivideInt2(...) or ssz.DecodeDynamicLength(...)
opNum(st, got) == [st EXCEPT !.num = got.n, !.err = got.err]

closureReturned(st, res) == [res EXCEPT !.buf = st.buf, !.indx = st.indx]

\* ssz.UnmarshalDynamic(buf, num, func(indx, buf)), from element k on
UnmarshalDynamic(prog, body, st, length, k) ==
    IF k >= length \/ st.err # "" THEN st
    ELSE IF ~DynamicOffset(st.buf, length, k + 1).ok THEN Raise(st, "errUnmarshalDynamic")
    ELSE IF DynamicOffset(st.buf, length, k).o > DynamicOffset(st.buf, length, k + 1).o
            \/ DynamicOffset(st.buf, length, k + 1).o > Len(st.buf)
    THEN Raise(st, "errUnmarshalDynamic")
    ELSE UnmarshalDynamic(prog, body,
            closureReturned(st, ExecSeq(prog, body,
                [st EXCEPT !.indx = k,
                           !.buf = SubSeq(st.buf, DynamicOffset(st.buf, length, k).o + 1,
                                          DynamicOffset(st.buf, length, k + 1).o)])),
            length, k + 1)

\* hh.PutBytes, hh.PutUint<N>, hh.PutBool, hh.PutBitlist on receiver.path
opPut(s, st) ==
    IF PathFault(st, s.path) # "" THEN Raise(st, PathFault(st, s.path))
    ELSE IF s.op = "putBitlist" /\ Len(Get(st, s.path)) = 0 THEN Raise(st, "ErrEmptyBitlist")
    ELSE [st EXCEPT !.hh = Append(@, [leaf |-> Get(st, s.path), how |-> s.op])]

\* hashRoots after its bound check: the elements are appended one by one
\* and merkleized from subIndx on
hashRootsChecked(s, st) ==
    IF st.err # "" THEN st
    ELSE IF \E i \in 1..Len(Get(st, s.path)) : Len(Get(st, s.path)[i]) # s.inner.ElemSize
    THEN Raise(st, "ErrBytesLength")
    ELSE [st EXCEPT !.hh = Merkleize(@ \o [i \in 1..Len(Get(st, s.path)) |->
                                              [leaf |-> Get(st, s.path)[i], how |-> s.inner]],
                                     Len(@), s.merkleize)]

opHashRoots(prog, s, st) ==
    IF PathFault(st, s.path) # "" THEN Raise(st, PathFault(st, s.path))
    ELSE hashRootsChecked(s, ExecSeq(prog, s.outer, st))

hashListReturned(st, path, k, child) ==
    [st EXCEPT !.recv.f[path][k + 1] = child.recv, !.hh = child.hh, !.err = child.err]

\* for i := 0; i < num; i++ { receiver.path[i].HashTreeRootWith(hh) }
HashListFrom(prog, path, st, k, num) ==
    IF k >= num \/ st.err # "" THEN st
    ELSE HashListFrom(prog, path,
            hashListReturned(st, path, k,
                CallMethod(prog, "HashTreeRoot", st.recv.f[path][k + 1], st.hh)),
            k + 1, num)

hashListDone(s, st, indx, res) ==
    IF res.err # "" THEN res
    ELSE [res EXCEPT !.hh = Merkleize(@, indx, [mixin |-> Len(Get(st, s.path)), limit |-> s.n])]

opHashList(prog, s, st) ==
    IF PathFault(st, s.path) # "" THEN Raise(st, PathFault(st, s.path))
    ELSE IF Len(Get(st, s.path)) > s.n THEN Raise(st, "ErrIncorrectListSize")
    ELSE hashListDone(s, st, Len(st.hh), HashListFrom(prog, s.path, st, 0, Len(Get(st, s.path))))

hashContainerDone(indx, res) ==
    IF res.err # "" THEN res ELSE [res EXCEPT !.hh = Merkleize(@, indx, "Merkleize")]

\* one statement of an emitted method
ExecOne(prog, s, st) ==
    CASE s.op = "ctrSet" -> [st EXCEPT !.ctr[s.ctr] = s.n]
      [] s.op = "ctrAdd" -> [st EXCEPT !.ctr[s.ctr] = @ + s.n]
      [] s.op \in {"ctrAddLen", "offsetSet4Len"} -> opCtrAddLen(s, st)
      [] s.op = "validate" -> opValidate(s, st)
      [] s.op = "append" -> opAppendTo(s, st, Get(st, s.path))
      [] s.op = "marshalUint" -> opAppendTo(s, st, LE(Get(st, s.path), s.n))
      [] s.op = "marshalBool" -> opAppendTo(s, st, <<IF Get(st, s.path) = TRUE THEN 1 ELSE 0>>)
      [] s.op = "writeOffset" -> [st EXCEPT !.dst = @ \o LE(st.ctr["offset"], 4)]
      [] s.op = "forLen" -> opForLen(prog, s, st)
      [] s.op = "forN" -> [Loop(prog, s.body, st, 0, s.n) EXCEPT !.ii = st.ii]
      [] s.op = "forNum" -> [Loop(prog, s.body, st, 0, st.num) EXCEPT !.ii = st.ii]
      [] s.op = "nilInit" -> opNilInit(prog, s, st)
      [] s.op \in {"callMarshal", "callSize", "callHash"} -> opCall(prog, s, st)
      [] s.op = "sizeCheck" -> opSizeCheck(s, st)
      [] s.op = "declOffsets" ->
            [st EXCEPT !.tail = st.buf, !.offs = [n \in Range(s.names) |-> 0]]
      [] s.op \in {"field", "hashField"} -> ExecSeq(prog, s.body, st)
      [] s.op = "readOffset" -> opReadOffset(s, st, SliceOf(st, s.src))
      [] s.op = "tail" ->
            opTail(prog, s, st, IF s.to = "" THEN Len(st.tail) ELSE st.offs[s.to])
      [] s.op \in {"copy", "checkLen", "appendFrom", "validateBitlist", "unmarshalUint",
                   "unmarshalBool", "callUnmarshal"} -> opStore(prog, s, st, SliceOf(st, s.src))
      [] s.op = "create" -> opCreate(s, st, IF s.useNum THEN st.num ELSE s.n)
      [] s.op = "divideInt2" -> opNum(st, DivideInt2(Len(st.buf), s.n, s.max))
      [] s.op = "decodeDynamicLength" -> opNum(st, DecodeDynamicLength(st.buf, s.max))
      [] s.op = "unmarshalDynamic" -> UnmarshalDynamic(prog, s.body, st, st.num, 0)
      [] s.op \in {"putBytes", "putUint", "putBool", "putBitlist"} -> opPut(s, st)
      [] s.op = "hashRoots" -> opHashRoots(prog, s, st)
      [] s.op = "hashList" -> opHashList(prog, s, st)
      [] s.op = "hashContainer" ->
            hashContainerDone(Len(st.hh), ExecSeq(prog, s.body, st))

-----------------------------------------------------------------------------
(* The package whose emitted methods are run: a fixed record, records with *)
(* one and with two variable fields, lists of fixed and of variable        *)
(* records, and a pointer to a variable record.                            *)

DeclC == StructDecl("C", <<Field("Data", Arr(0, Ident("byte")), Max(2)),
                           Field("Tag", Ident("uint16"), NoTags)>>)
DeclS == StructDecl("S", <<Field("In", Star(Ident("A")), NoTags),
                           Field("D1", Arr(0, Ident("byte")), Max(1)),
                           Field("D2", Arr(0, Ident("byte")), Max(1))>>)
DeclL == StructDecl("L", <<Field("Items", Arr(0, Star(Ident("C"))), Max(2))>>)
DeclD == StructDecl("D", <<Field("Children", Arr(0, Star(Ident("A"))), Max(2))>>)
DeclP == StructDecl("P", <<Field("V", Star(Ident("C")), NoTags)>>)
DeclV == StructDecl("V", <<Field("Flag", Ident("bool"), NoTags),
                           Field("Rows", Arr(0, Arr(0, Ident("byte"))),
                                 <<Tok("ssz-size", TupleVal(2, 1))>>)>>)

\* records with a bitlist of at most 3 bits and of at most 1 bit
DeclE == StructDecl("E", <<Field("Bits", Sel("bitfield", "Bitlist"), Max(3))>>)
DeclF == StructDecl("F", <<Field("Bits", Sel("bitfield", "Bitlist"), Max(1))>>)

BitlistRecords == {"E", "F"}

DirCorpus == SourceDir("dir", ".", [n \in {"corpus.go"} |->
                Entry("corpus", File(<<DeclA, DeclC, DeclS, DeclL, DeclD, DeclP, DeclV, DeclE, DeclF>>,
                                     <<>>, <<>>))])

\* the env Generate has after generateIR on that package
CorpusEnv ==
    generateIR(NewEnv(parsePackage(DirCorpus, <<"corpus">>).pkg, EmptyMap, {}),
               <<"corpus.go">>, <<"corpus.go">>, <<>>, <<"A", "C", "S", "L", "D", "P", "V", "E", "F">>)

\* the IR and the method bodies print writes for each record
Program ==
    [objs |-> CorpusEnv.objs,
     methods |-> [n \in DOMAIN CorpusEnv.objs |-> Methods(n, CorpusEnv.objs[n])]]

-----------------------------------------------------------------------------
(* The receivers and buffers the methods are called with.                  *)

\* by how much a slice may exceed the bound of its tag
MaxOver == 1

\* by how much a byte of a buffer, and the length of a buffer, is changed
MaxEdit == 1

BytesOfLen(n) == [i \in 1..n |-> i]

UintSamples(n) == IF n = 1 THEN {0, 1} ELSE {0, 258}

RECURSIVE FullOf(_, _)
\* a value of the node v with every slice filled to its bound
FullOf(objs, v) ==
    CASE v.sszValueType = TypeUint -> IF v.valueSize = 1 THEN 1 ELSE 258
      [] v.sszValueType = TypeBool -> TRUE
      [] v.sszValueType \in {TypeBytes, TypeBitVector, TypeBitList} ->
            BytesOfLen(IF v.sizeInBytes # 0 THEN v.sizeInBytes ELSE v.maxSize)
      [] v.sszValueType \in {TypeContainer, TypeReference} ->
            RPtr(objRef(v), [n \in DOMAIN NewRec(objs, objRef(v)).f |->
                FullOf(objs, objs[objRef(v)].fields[
                    CHOOSE i \in 1..Len(objs[objRef(v)].fields) :
                        objs[objRef(v)].fields[i].fieldName = n])])
      [] v.sszValueType \in {TypeList, TypeVector} ->
            [i \in 1..v.sizeInBytes |-> FullOf(objs, v.elementType[1])]

\* bitlists of one, three and nine bits: the highest set bit of the last
\* byte marks the end
BitlistSamples == {<<3>>, <<15>>, <<0, 2>>}

RECURSIVE Samples(_, _)
\* the values a field of the node v is given
Samples(objs, v) ==
    CASE v.sszValueType = TypeUint -> UintSamples(v.valueSize)
      [] v.sszValueType = TypeBool -> BOOLEAN
      [] v.sszValueType \in {TypeBytes, TypeBitVector} ->
            IF v.sizeIsVariable THEN {Zeros(v.sizeInBytes), BytesOfLen(v.sizeInBytes)}
            ELSE {BytesOfLen(k) : k \in 0..((IF v.sizeInBytes # 0 THEN v.sizeInBytes
                                              ELSE v.maxSize) + MaxOver)}
      [] v.sszValueType = TypeBitList ->
            {BytesOfLen(k) : k \in 0..(v.maxSize + MaxOver)} \cup BitlistSamples
      [] v.sszValueType \in {TypeContainer, TypeReference} ->
            {RNil(objRef(v)), NewRec(objs, objRef(v)), FullOf(objs, v)}
      [] v.sszValueType \in {TypeList, TypeVector} ->
            SeqsUpTo(Samples(objs, v.elementType[1]), v.sizeInBytes + MaxOver)

RECURSIVE FieldMaps(_, _, _)
\* the assignments of sample values to the fields from field i on
FieldMaps(objs, fields, i) ==
    IF i > Len(fields) THEN {EmptyMap}
    ELSE {Put(m, fields[i].fieldName, x) :
            m \in FieldMaps(objs, fields, i + 1), x \in Samples(objs, fields[i])}

Receivers(objs, ty) == {RPtr(ty, f) : f \in FieldMaps(objs, objs[ty].fields, 1)}

\* the buffers a caller may hold before MarshalSSZTo appends to them
Prefixes == {<<>>, <<255>>}

\* the values a byte x is changed to
ByteEdits(x) == {0, 255} \cup {d \in (x - MaxEdit)..(x + MaxEdit) : d >= 0 /\ d <= 255}

\* the buffer b, b with one byte changed, b shortened, b extended
Buffers(b) ==
    {b}
    \cup UNION {{[b EXCEPT ![i] = x] : x \in ByteEdits(b[i])} : i \in 1..Len(b)}
    \cup {SubSeq(b, 1, Len(b) - k) : k \in 1..(IF Len(b) < MaxEdit THEN Len(b) ELSE MaxEdit)}
    \cup {b \o Zeros(k) : k \in 1..MaxEdit}

-----------------------------------------------------------------------------
(* Specification Spec: the methods emitted for one record of the package,  *)
(* called on one receiver: SizeSSZ, then MarshalSSZTo, then UnmarshalSSZ   *)
(* on the bytes that gave or on a variation of them; or HashTreeRootWith.  *)

\* the generator's variables, which the methods do not touch
GeneratorIdle ==
    /\ input = Args(DirCorpus, <<>>, {}, "", {})
    /\ gpc = [r \in Runs |-> "start"]
    /\ genv = [r \in Runs |-> NewEnv(NoPackage, EmptyMap, {})]
    /\ gout = [r \in Runs |-> NoOut]
    /\ gtodo = [r \in Runs |-> {}]
    /\ gdisk = [r \in Runs |-> EmptyMap]
    /\ gerr = [r \in Runs |-> ""]
    /\ MainRunning

Init ==
    /\ GeneratorIdle
    /\ EmitIdle
    /\ mty \in DOMAIN Program.methods
    /\ mrecv \in Receivers(Program.objs, mty)
    /\ mrecv0 = mrecv
    /\ mbuf = <<>> /\ mdst = <<>> /\ msize = -1 /\ moffs = EmptyMap /\ mhh = <<>>
    /\ mpc = "idle" /\ mres = "" /\ morig = [x |-> mrecv, bytes |-> <<>>]

\* the bytes MarshalSSZTo appended to the buffer it was given
Appended == SubSeq(mdst, Len(mbuf) + 1, Len(mdst))

sizeDone(res) ==
    /\ mpc' = "sized"
    /\ mrecv0' = mrecv /\ mrecv' = res.recv
    /\ msize' = res.ctr["size"] /\ mres' = res.err
    /\ UNCHANGED <<mty, mbuf, mdst, moffs, mhh, morig>>

\* x.SizeSSZ()
CallSizeSSZ ==
    /\ mpc = "idle"
    /\ sizeDone(CallMethod(Program, "Size", mrecv, <<>>))
    /\ UNCHANGED <<gvars, evars>>

marshalDone(buf, res) ==
    /\ mpc' = "marshalled"
    /\ mrecv0' = mrecv /\ mrecv' = res.recv
    /\ mbuf' = buf /\ mdst' = res.dst /\ mres' = res.err
    /\ UNCHANGED <<mty, msize, moffs, mhh, morig>>

\* x.MarshalSSZTo(buf)
CallMarshalSSZTo ==
    /\ mpc = "sized" /\ mres = ""
    /\ \E buf \in Prefixes : marshalDone(buf, CallMethod(Program, "Marshal", mrecv, buf))
    /\ UNCHANGED <<gvars, evars>>

unmarshalDone(buf, dest, res) ==
    /\ mpc' = "unmarshalled"
    /\ morig' = [x |-> mrecv, bytes |-> Appended]
    /\ mrecv0' = dest /\ mrecv' = res.recv
    /\ mbuf' = buf /\ moffs' = res.offs /\ mres' = res.err
    /\ UNCHANGED <<mty, mdst, msize, mhh>>

\* y.UnmarshalSSZ(buf), y being a new record or the record that was marshalled
CallUnmarshalSSZ ==
    /\ mpc = "marshalled" /\ mres = ""
    /\ \E buf \in Buffers(Appended) :
       \E dest \in {NewRec(Program.objs, mty), mrecv} :
          unmarshalDone(buf, dest, CallMethod(Program, "Unmarshal", dest, buf))
    /\ UNCHANGED <<gvars, evars>>

hashDone(res) ==
    /\ mpc' = "hashed"
    /\ mrecv0' = mrecv /\ mrecv' = res.recv
    /\ mhh' = res.hh /\ mres' = res.err
    /\ UNCHANGED <<mty, mbuf, mdst, msize, moffs, morig>>

\* x.HashTreeRootWith(hh)
CallHashTreeRootWith ==
    /\ mpc = "idle"
    /\ hashDone(CallMethod(Program, "HashTreeRoot", mrecv, <<>>))
    /\ UNCHANGED <<gvars, evars>>

Next ==
    \/ CallSizeSSZ
    \/ CallMarshalSSZTo
    \/ CallUnmarshalSSZ
    \/ CallHashTreeRootWith

Spec == Init /\ [][Next]_vars

-----------------------------------------------------------------------------
(* Properties of the emitted methods.                                      *)

\* the IR node of the record whose methods run
Target == Program.objs[mty]

RECURSIVE EncodedOffsetsFrom(_, _, _, _)
\* the offsets a buffer holds for the variable fields of v, in declaration
\* order: field i lies at pos, a fixed field taking its valueSize and an
\* offset four bytes
EncodedOffsetsFrom(v, buf, i, pos) ==
    IF i > Len(v.fields) THEN <<>>
    ELSE IF isFixed(v.fields[i])
    THEN EncodedOffsetsFrom(v, buf, i + 1, pos + v.fields[i].valueSize)
    ELSE <<FromLE(SubSeq(buf, pos + 1, pos + 4))>> \o EncodedOffsetsFrom(v, buf, i + 1, pos + 4)

EncodedOffsets(v, buf) == EncodedOffsetsFrom(v, buf, 1, 0)

\* the comparison at the top of UnmarshalSSZ
SizeCheckFails ==
    IF isFixed(Target) THEN Len(mbuf) # Target.valueSize ELSE Len(mbuf) < Target.valueSize

\* C2: round trip.  When MarshalSSZTo has succeeded on a record, UnmarshalSSZ
\* of the bytes it appended, into a new record, succeeds and yields a
\* record equal to the one marshalled.
C2_Roundtrip ==
    (mpc = "unmarshalled" /\ mbuf = morig.bytes /\ mrecv0 = NewRec(Program.objs, mty))
        => (mres = "" /\ mrecv = morig.x)

\* a bitlist of at most maxBits bits: the bits, then one set bit, then zeros
\* to the end of the byte
WellFormedBitlist(b, maxBits) ==
    \E k \in 0..maxBits :
        /\ Len(b) = k \div 8 + 1
        /\ b[Len(b)] \in (2 ^ (k % 8))..(2 ^ ((k % 8) + 1) - 1)

BitListsWellFormed(x) ==
    \A i \in 1..Len(Target.fields) :
        Target.fields[i].sszValueType = TypeBitList =>
            WellFormedBitlist(x.f[Target.fields[i].fieldName], Target.fields[i].maxSize)

\* C2, amended: for every value x of a target record that MarshalSSZ accepts
\* and whose BitList fields each hold a well-formed bitlist of at most
\* maxBits bits, UnmarshalSSZ of the marshalled bytes into a fresh receiver
\* succeeds and leaves the receiver equal to x.
C2_RoundtripWellFormed ==
    (/\ mpc = "unmarshalled" /\ mbuf = morig.bytes
     /\ mrecv0 = NewRec(Program.objs, mty) /\ BitListsWellFormed(morig.x))
        => (mres = "" /\ mrecv = morig.x)

\* a bitlist of three bits under the bound of three has made the round trip
C2_WitnessBitlist ==
    /\ mpc = "unmarshalled" /\ mbuf = morig.bytes /\ mrecv0 = NewRec(Program.objs, mty)
    /\ mty = "E" /\ morig.x.f["Bits"] = <<15>>
    /\ mres = "" /\ mrecv = morig.x

C2_Witness ==
    /\ mpc = "unmarshalled" /\ mbuf = morig.bytes /\ mrecv0 = NewRec(Program.objs, mty)
    /\ mty = "L" /\ Len(morig.x.f["Items"]) = 2
    /\ morig.x.f["Items"][1].f["Data"] # morig.x.f["Items"][2].f["Data"]
    /\ mrecv = morig.x

\* C3: size and marshal agree.  When MarshalSSZTo succeeds, the number of
\* bytes it appended to the buffer is the value SizeSSZ returned.
C3_SizeIsBytesAppended ==
    (mpc = "marshalled" /\ mres = "") => Len(Appended) = msize

C3_Witness ==
    /\ mpc = "marshalled" /\ mres = "" /\ mbuf # <<>>
    /\ mty = "L" /\ Len(mrecv.f["Items"]) = 2 /\ mrecv.f["Items"][1].f["Data"] # <<>>
    /\ Len(Appended) = msize

\* C4: the methods never fault.  No call ends in a nil dereference or an
\* access out of range.
C4_NeverFaults == mres \notin Faults

\* C5: offset monotonicity.  After a successful UnmarshalSSZ of a variable
\* record the offset variables hold the offsets of the buffer, each at most
\* len(buf) and none smaller than the one before; a buffer that holds the
\* fixed part and breaks either rule ends in ErrOffset.
C5_OffsetsMonotone ==
    (mpc = "unmarshalled" /\ ~isFixed(Target) /\ ~SizeCheckFails) =>
        LET names == offsetNames(Target)
            enc == EncodedOffsets(Target, mbuf)
            bad == \E i \in 1..Len(enc) : enc[i] > Len(mbuf) \/ (i > 1 /\ enc[i] < enc[i - 1])
        IN /\ mres = "" => (~bad /\ \A i \in 1..Len(names) : moffs[names[i]] = enc[i])
           /\ bad => mres = "ErrOffset"

C5_Witness ==
    /\ mpc = "unmarshalled" /\ mty = "S" /\ mres = ""
    /\ moffs["o1"] < moffs["o2"] /\ moffs["o2"] < Len(mbuf)

\* C6: the first offset.  UnmarshalSSZ rejects a buffer whose first offset
\* is not the size of the record's fixed part.
C6_FirstOffsetIsFixedSize ==
    (mpc = "unmarshalled" /\ ~isFixed(Target) /\ ~SizeCheckFails
     /\ EncodedOffsets(Target, mbuf)[1] # Target.valueSize) => mres # ""

\* C7, as stated: UnmarshalSSZ returns ErrSize exactly when the length of
\* the buffer fails the comparison with valueSize, and then the destination
\* is unchanged.
C7_ErrSizeIffLength ==
    mpc = "unmarshalled" =>
        /\ (mres = "ErrSize") <=> SizeCheckFails
        /\ mres = "ErrSize" => mrecv = mrecv0

\* C7, amended: when the length of the buffer fails the comparison with
\* valueSize (# for a fixed record, < for a variable one), UnmarshalSSZ
\* returns ErrSize and leaves the destination as it was.  The converse is
\* not claimed: the UnmarshalSSZ of a record the destination holds returns
\* ErrSize too, after fields of the destination were assigned.
C7_SizeCheck ==
    (mpc = "unmarshalled" /\ SizeCheckFails) => (mres = "ErrSize" /\ mrecv = mrecv0)

C7_Witness ==
    /\ mpc = "unmarshalled" /\ ~isFixed(Target) /\ SizeCheckFails
    /\ mres = "ErrSize" /\ mrecv0 # NewRec(Program.objs, mty) /\ mrecv = mrecv0


-----------------------------------------------------------------------------
(* Specification SpecIR: parsePackage and generateIR on packages that      *)
(* declare a record R next to a fixed record A, a variable record C and a  *)
(* record I that has its four methods.  R's fields range over the type     *)
(* expressions and tags parseASTFieldType tells apart; further packages    *)
(* repeat a name or an import path across files and reference packages.    *)

\* a field's type expression and tag, before it is given a name
Decl(typ, tags) == [typ |-> typ, tags |-> tags]

Bytes1D == Arr(0, Ident("byte"))
Bytes2D == Arr(0, Arr(0, Ident("byte")))
SszTag(w) == <<Tok("ssz", WordVal(w))>>
SizeTuple(a, b) == <<Tok("ssz-size", TupleVal(a, b))>>
SizeDefer(b) == <<Tok("ssz-size", DeferVal(b))>>

BasicDecls == {Decl(Ident(n), NoTags) : n \in {"uint64", "uint32", "uint16", "uint8", "bool"}}

BytesDecls ==
    {Decl(Arr(4, Ident("byte")), NoTags), Decl(Bytes1D, Size(3)), Decl(Bytes1D, Max(5)),
     Decl(Bytes1D, NoTags), Decl(Bytes1D, Size(3) \o Max(5)),
     Decl(Bytes1D, SszTag("bitlist") \o Max(9)), Decl(Bytes1D, SszTag("bitlist")),
     Decl(Bytes1D, SszTag("bitlist") \o Size(3))}

BitfieldDecls ==
    {Decl(Sel("bitfield", "Bitlist"), Max(9)), Decl(Sel("bitfield", "Bitlist"), NoTags),
     Decl(Sel("bitfield", "Bitlist"), Size(2)),
     Decl(Sel("bitfield", "Bitvector4"), Size(1)), Decl(Sel("bitfield", "Bitvector4"), NoTags)}

NamedDecls ==
    {Decl(Star(Ident("A")), NoTags), Decl(Star(Ident("C")), NoTags),
     Decl(Star(Ident("I")), Size(2)), Decl(Star(Ident("I")), NoTags),
     Decl(Ident("U"), NoTags), Decl(Star(Ident("Missing")), NoTags)}

ElemDecls ==
    {Decl(Arr(0, Star(Ident("A"))), Max(2)), Decl(Arr(0, Star(Ident("A"))), Size(2)),
     Decl(Arr(0, Star(Ident("C"))), Max(2)), Decl(Arr(0, Star(Ident("C"))), Size(2)),
     Decl(Arr(0, Star(Ident("A"))), NoTags), Decl(Arr(0, Ident("uint64")), Max(3)),
     Decl(Arr(0, Ident("uint64")), Size(3)), Decl(Arr(0, Ident("uint64")), NoTags),
     Decl(Arr(0, Star(Ident("I"))), Max(2))}

ByteRowDecls ==
    {Decl(Arr(2, Arr(3, Ident("byte"))), NoTags), Decl(Bytes2D, SizeTuple(2, 3)),
     Decl(Bytes2D, SizeDefer(3) \o Max(2)), Decl(Bytes2D, SizeDefer(3)),
     Decl(Bytes2D, NoTags), Decl(Bytes2D, Size(2)), Decl(Bytes2D, Max(2)),
     Decl(Arr(0, Arr(3, Ident("byte"))), Size(2)), Decl(Arr(0, Arr(3, Ident("byte"))), Max(2)),
     Decl(Arr(0, Arr(3, Ident("byte"))), NoTags),
     Decl(Arr(2, Arr(0, Ident("byte"))), Size(3)), Decl(Arr(2, Arr(0, Ident("byte"))), Max(3)),
     Decl(Arr(2, Arr(0, Ident("byte"))), NoTags),
     Decl(Arr(2, Arr(3, Ident("byte"))), Max(5)), Decl(Bytes2D, SizeTuple(2, 3) \o Max(5))}

OmittedDecls == {Decl(Ident("uint16"), SszTag("-")), Decl(Bytes1D, SszTag("-"))}

FieldDecls ==
    BasicDecls \cup BytesDecls \cup BitfieldDecls \cup NamedDecls \cup ElemDecls
    \cup ByteRowDecls \cup OmittedDecls

\* the declarations R is given two at a time
PairDecls ==
    {Decl(Ident("uint32"), NoTags), Decl(Bytes1D, Max(5)), Decl(Bytes1D, Size(3)),
     Decl(Star(Ident("A")), NoTags), Decl(Star(Ident("C")), NoTags),
     Decl(Star(Ident("I")), NoTags), Decl(Arr(0, Star(Ident("C"))), Size(2)),
     Decl(Arr(0, Star(Ident("A"))), Size(2)), Decl(Sel("bitfield", "Bitlist"), Max(9)),
     Decl(Bytes2D, SizeDefer(3) \o Max(2)), Decl(Ident("uint16"), SszTag("-"))}

\* the names a field list gives: exported, unexported, generated by protobuf
FieldNames == {"F", "f", "_f", "XXX_f", "Xf"}

\* an entry of a field list with two names, as in `G, H uint16`
TwoNames(d) == [names |-> <<"G", "H">>, typ |-> d.typ, tags |-> d.tags]

FieldLists ==
    {<<Field("F", d.typ, d.tags)>> : d \in FieldDecls}
    \cup {<<Field("F", d1.typ, d1.tags), Field("G", d2.typ, d2.tags)>> : d1, d2 \in PairDecls}
    \cup {<<Field(n, Ident("uint16"), NoTags), Field("K", d.typ, d.tags), Field("Z", Ident("bool"), NoTags)>> :
            n \in FieldNames, d \in {Decl(Ident("uint32"), NoTags), Decl(Bytes1D, Max(5))}}
    \cup {<<Field("F", Ident("uint64"), NoTags), TwoNames(d), Field(n, Ident("bool"), NoTags)>> :
            n \in FieldNames \ {"F"}, d \in {Decl(Ident("uint16"), NoTags)}}

\* the package of one file that declares A, C, I with its methods, U and R
DirR(fs) ==
    SourceDir("dir", ".", [n \in {"r.go"} |->
        Entry("p", File(<<DeclA, DeclC, DeclI, DeclU, StructDecl("R", fs)>>, FourMethods("I"), <<>>))])

\* packages that repeat a type name: in two files, in one file, in the
\* primary and a reference package, in two reference packages
DirTwice == SourceDir("dir", ".", [n \in {"a.go"} |->
                Entry("p", File(<<DeclA, DeclU, DeclA>>, <<>>, <<>>))])
DirQR == SourceDir("dir", ".", [n \in {"q.go", "r.go"} |->
                IF n = "q.go"
                THEN Entry("p", File(<<DeclQ>>, <<>>, <<Import("", "example.com/dep", "dep")>>))
                ELSE Entry("p", File(<<DeclR>>, <<>>, <<>>))])
DirDep2 == SourceDir("dir", "dep2", [n \in {"r.go", "u.go"} |->
                IF n = "r.go" THEN Entry("dep2", File(<<DeclR>>, <<>>, <<>>))
                ELSE Entry("dep2", File(<<DeclU>>, <<>>, <<>>))])
DirDep3 == SourceDir("dir", "dep3", [n \in {"u.go"} |-> Entry("dep3", File(<<DeclU, DeclI>>, <<>>, <<>>))])
\* a second directory whose package is named dep
DirDepAgain == SourceDir("dir", "other/dep", [n \in {"r.go"} |->
                Entry("dep", File(<<DeclR, DeclU>>, <<>>, <<>>))])

NameInputs ==
    {Args(d, <<>>, {}, "", {}) : d \in {DirAB, DirDuplicate, DirTwice}}
    \cup {Args(d, deps, {}, "", {}) :
            d \in {DirQ, DirQR},
            deps \in {<<DirDep>>, <<DirDep, DirDep2>>, <<DirDep, DirDep3>>, <<DirDep2, DirDep3>>,
                      <<DirDep3>>, <<DirDep, DirDepAgain>>, <<DirDep3, DirDepAgain>>}}

\* the import declarations of the files: two paths, with and without alias
ImportDecls ==
    {Import(a, "example.com/dep", "dep") : a \in {"", "dep", "d2", "_"}}
    \cup {Import(a, "example.com/other", "other") : a \in {"", "dep"}}

\* a package of two files with the import lists l1 and l2
DirImports(l1, l2) ==
    SourceDir("dir", ".", [n \in {"a.go", "b.go"} |->
        IF n = "a.go" THEN Entry("p", File(<<DeclA>>, <<>>, l1))
        ELSE Entry("p", File(<<DeclB>>, <<>>, l2))])

ImportInputs ==
    {Args(DirImports(l1, l2), <<>>, {}, "", {}) :
        l1 \in SeqsUpTo(ImportDecls, 2), l2 \in SeqsUpTo(ImportDecls, 1)}

\* the record I in i.go, and for each of the four methods whether i.go
\* declares it, m.go declares it, or no file does; and in place of SizeSSZ a
\* method on a value receiver or one that returns uint64
DirMethods(ms1, ms2) ==
    SourceDir("dir", ".", [n \in {"i.go", "m.go"} |->
        IF n = "i.go" THEN Entry("p", File(<<DeclI, DeclT>>, ms1, <<>>))
        ELSE Entry("p", File(<<DeclA>>, ms2, <<>>))])

MethodsAt(at, k) ==
    Flatten([j \in 1..4 |-> IF at[j] = k THEN <<FourMethods("I")[j]>> ELSE <<>>])

OtherSizeSSZ ==
    {Method("I", FALSE, "SizeSSZ", <<>>, <<"int">>), Method("I", TRUE, "SizeSSZ", <<>>, <<"uint64">>),
     Method("A", TRUE, "SizeSSZ", <<>>, <<"int">>)}

MethodInputs ==
    {Args(DirMethods(MethodsAt(at, 1), MethodsAt(at, 2)), <<>>, {}, "", {}) :
        at \in [1..4 -> 0..2]}
    \cup {Args(DirMethods(<<m>> \o Tail(FourMethods("I")), <<>>), <<>>, {}, "", {}) :
            m \in OtherSizeSSZ}

\* directories of up to three files: p.go of package p, x.go of package p,
\* p_test, ignore or main, either of them with declarations or with the
\* package clause alone, and with or without p_test.go of package p_test
DirPackages(empty1, pkg2, empty2, withTest) ==
    SourceDir("dir", ".", [n \in {"p.go", "x.go"} \cup (IF withTest THEN {"p_test.go"} ELSE {}) |->
        CASE n = "p.go" -> Entry("p", IF empty1 THEN File(<<>>, <<>>, <<>>) ELSE File(<<DeclA>>, <<>>, <<>>))
          [] n = "x.go" -> Entry(pkg2, IF empty2 THEN File(<<>>, <<>>, <<>>) ELSE File(<<DeclI>>, <<>>, <<>>))
          [] n = "p_test.go" -> Entry("p_test", File(<<DeclU>>, <<>>, <<>>))])

PackageInputs ==
    {Args(DirPackages(e1, k, e2, t), <<>>, {}, "", {}) :
        e1 \in BOOLEAN, k \in {"p", "p_test", "ignore", "main"}, e2 \in BOOLEAN, t \in BOOLEAN}

\* a path that names the file a.go or b.go of a directory that holds both;
\* the directory is the current one, sub, or is itself called a.go
FileInputs ==
    {Args(SourceFile(dir, f, DirAB.entries), <<>>, {}, "", {}) :
        dir \in {".", "sub", "a.go"}, f \in {"a.go", "b.go"}}

\* records that refer to themselves, to each other, through a list, through
\* an alias, through a field that is left out, and a chain without a cycle
DirRecords(decls) ==
    SourceDir("dir", ".", [n \in {"x.go"} |-> Entry("p", File(decls, <<>>, <<>>))])

CycleDecls ==
    {<<StructDecl("X", <<Field("N", Ident("uint16"), NoTags), Field("Next", Star(Ident("X")), NoTags)>>)>>,
     <<StructDecl("X", <<Field("Y", Star(Ident("Y")), NoTags)>>),
       StructDecl("Y", <<Field("Xs", Arr(0, Star(Ident("X"))), Max(2))>>)>>,
     <<StructDecl("X", <<Field("Y", Ident("Y"), Max(2))>>),
       TypeDecl("Y", Arr(0, Star(Ident("X"))))>>,
     <<StructDecl("X", <<Field("N", Ident("uint16"), NoTags),
                         Field("Next", Star(Ident("X")), SszTag("-"))>>)>>,
     <<StructDecl("X", <<Field("N", Ident("uint16"), NoTags), Field("next", Star(Ident("X")), NoTags)>>)>>,
     <<StructDecl("X", <<Field("Y", Star(Ident("Y")), NoTags)>>),
       StructDecl("Y", <<Field("Z", Star(Ident("Z")), NoTags)>>),
       StructDecl("Z", <<Field("N", Ident("uint16"), NoTags)>>)>>,
     <<DeclA, StructDecl("X", <<Field("In", Star(Ident("A")), NoTags),
                                Field("Next", Star(Ident("X")), NoTags)>>)>>}

CycleInputs ==
    {Args(DirRecords(ds), <<>>, names, "", {}) : ds \in CycleDecls, names \in {{}, {"X"}, {"A"}}}

\* two fields of one named type with tags of their own: the record I, which
\* has the four methods, and the alias H of []byte; the targets are R alone
\* or R with I
DeclH == TypeDecl("H", Bytes1D)

SharedDecls ==
    {Decl(Star(Ident("I")), Size(2)), Decl(Star(Ident("I")), Size(4)), Decl(Star(Ident("I")), NoTags),
     Decl(Ident("H"), Size(2)), Decl(Ident("H"), Size(4)), Decl(Ident("H"), Max(5))}

DirShared(fs) ==
    SourceDir("dir", ".", [n \in {"r.go"} |->
        Entry("p", File(<<DeclI, DeclH, StructDecl("R", fs)>>, FourMethods("I"), <<>>))])

SharedInputs ==
    {Args(DirShared(<<Field("F", d1.typ, d1.tags), Field("G", d2.typ, d2.tags)>>), <<>>, names, "", {}) :
        d1, d2 \in SharedDecls, names \in {{"R"}, {"R", "I"}}}

IRInputs ==
    {Args(DirR(fs), <<>>, {"R"}, "", {}) : fs \in FieldLists} \cup NameInputs \cup ImportInputs
    \cup MethodInputs \cup PackageInputs \cup FileInputs \cup CycleInputs \cup SharedInputs

InitIR ==
    /\ input \in IRInputs
    /\ gpc = [r \in Runs |-> "start"]
    /\ genv = [r \in Runs |-> NewEnv(NoPackage, EmptyMap, {})]
    /\ gout = [r \in Runs |-> NoOut]
    /\ gtodo = [r \in Runs |-> {}]
    /\ gdisk = [r \in Runs |-> EmptyMap]
    /\ gerr = [r \in Runs |-> ""]
    /\ MainRunning
    /\ RuntimeIdle
    /\ EmitIdle

NextIR == GenerateParse(1) \/ GenerateIR(1)

SpecIR == InitIR /\ [][NextIR]_vars

\* the env of the run once generateIR has returned, and whether it failed
IR == genv[1]
Built == gpc[1] = "ir"
BuildFailed == gpc[1] = "done" /\ gerr[1] # ""

RECURSIVE Nodes(_)
\* a node and the nodes below it
Nodes(v) ==
    {v} \cup UNION {Nodes(v.fields[i]) : i \in 1..Len(v.fields)}
        \cup UNION {Nodes(v.elementType[i]) : i \in 1..Len(v.elementType)}

IRNodes == UNION {Nodes(IR.objs[n]) : n \in DOMAIN IR.objs}

RECURSIVE FixedPart(_, _)
\* the sum over the fields from i on of the size of a fixed field, 4 otherwise
FixedPart(fields, i) ==
    IF i > Len(fields) THEN 0
    ELSE (IF isFixed(fields[i]) THEN fields[i].valueSize ELSE 4) + FixedPart(fields, i + 1)

\* C11: every Container node of the IR has valueSize equal to the sum over
\* its fields of the field's valueSize when the field is fixed and 4
\* otherwise, and sizeIsVariable exactly when some field is not fixed.
C11_ContainerSize ==
    \A v \in IRNodes :
        v.sszValueType = TypeContainer =>
            /\ v.valueSize = FixedPart(v.fields, 1)
            /\ v.sizeIsVariable <=> (\E i \in 1..Len(v.fields) : ~isFixed(v.fields[i]))

C11_Witness ==
    /\ Built /\ "R" \in DOMAIN IR.objs
    /\ Len(IR.objs["R"].fields) = 2
    /\ IR.objs["R"].fields[1].sszValueType = TypeContainer
    /\ isFixed(IR.objs["R"].fields[1])
    /\ ~isFixed(IR.objs["R"].fields[2])
    /\ IR.objs["R"].valueSize = 8 /\ IR.objs["R"].sizeIsVariable


RECURSIVE FixedByKind(_)
\* the classification by kind: a declared length or size is a sizeInBytes
\* other than 0, and a container is judged by its fields
FixedByKind(v) ==
    CASE v.sszValueType \in {TypeUint, TypeBool, TypeBitVector} -> TRUE
      [] v.sszValueType = TypeBytes -> v.sizeInBytes # 0
      [] v.sszValueType = TypeVector -> FixedByKind(v.elementType[1])
      [] v.sszValueType = TypeContainer ->
            \A i \in 1..Len(v.fields) : FixedByKind(v.fields[i])
      [] v.sszValueType = TypeReference -> v.sizeInBytes # 0
      [] OTHER -> FALSE

\* C12: for every node of the IR, isFixed is true exactly for Uint, Bool,
\* BitVector, Bytes with a length, Vector of a fixed element, Container
\* without a variable field and Reference with a size, false for the rest.
C12_FixedClassification == \A v \in IRNodes : isFixed(v) = FixedByKind(v)

C12_Witness ==
    /\ Built /\ "R" \in DOMAIN IR.objs
    /\ Len(IR.objs["R"].fields) = 2
    /\ IR.objs["R"].fields[1].sszValueType = TypeVector
    /\ ~isFixed(IR.objs["R"].fields[1])
    /\ IR.objs["R"].fields[2].sszValueType = TypeVector
    /\ isFixed(IR.objs["R"].fields[2])
    /\ ~isFixed(IR.objs["R"])


\* generateIR has run: parsePackage gave the env its packages
IRRan == gpc[1] \in {"ir", "done"} /\ IR.sourcePackage # NoPackage

\* the files generateIR reads type declarations from: <<"", file>> for a
\* file of the primary package, <<package, file>> for a reference file
DeclFiles(e) ==
    {<<"", n>> : n \in DOMAIN e.sourcePackage.Files} \cup RefFiles(e.referencePackages)

FileOf(e, kn) ==
    IF kn[1] = "" THEN e.sourcePackage.Files[kn[2]]
    ELSE e.referencePackages[kn[1]].Files[kn[2]]

\* the type declarations of those files that declare the name n
DeclsOf(e, n) ==
    UNION {{<<kn, i>> : i \in {j \in 1..Len(FileOf(e, kn).decls) : FileOf(e, kn).decls[j].name = n}} :
             kn \in DeclFiles(e)}

DeclaredNames(e) ==
    UNION {{FileOf(e, kn).decls[i].name : i \in 1..Len(FileOf(e, kn).decls)} : kn \in DeclFiles(e)}

Collected(e) ==
    UNION {{<<n, i>> : i \in 1..Len(decodeASTImports(e.sourcePackage.Files[n]))} :
             n \in DOMAIN e.sourcePackage.Files}

ImportAt(e, c) == decodeASTImports(e.sourcePackage.Files[c[1]])[c[2]]

\* two collected imports have the same path and different aliases
AliasConflict(e) ==
    \E c1, c2 \in Collected(e) :
        /\ ImportAt(e, c1).path = ImportAt(e, c2).path
        /\ ImportAt(e, c1).alias # ImportAt(e, c2).alias

\* C14: generateIR fails when two imports collected from the primary files
\* have the same path and different aliases, the empty alias included;
\* otherwise the import table has exactly one entry for each imported
\* path, and the entry is the import as its occurrences declare it.
C14_ImportsReconciled ==
    IRRan =>
        IF AliasConflict(IR) THEN BuildFailed
        ELSE /\ \A i, j \in 1..Len(IR.imports) :
                    IR.imports[i].path = IR.imports[j].path => i = j
             /\ {IR.imports[i] : i \in 1..Len(IR.imports)}
                    = {ImportAt(IR, c) : c \in Collected(IR)}

\* one file imports a path without alias, the other under an alias
C14_Witness ==
    /\ IRRan /\ BuildFailed
    /\ IR.err = "the same package is imported twice with different aliases"
    /\ \E c1, c2 \in Collected(IR) :
        /\ c1[1] # c2[1]
        /\ ImportAt(IR, c1).path = ImportAt(IR, c2).path
        /\ ImportAt(IR, c1).alias = "" /\ ImportAt(IR, c2).alias # ""


\* the records of the IR that were built from a struct declaration
BuiltStructs == {n \in DOMAIN IR.objs : IR.raw[n].isStruct /\ ~IR.raw[n].implFunc}

\* the entry of the field list of record n that declares the IR field f
DeclOfField(n, f) ==
    LET fs == IR.raw[n].fields
    IN fs[CHOOSE j \in 1..Len(fs) : fs[j].names = <<f.fieldName>>]

HasTag(tags, name) == getTags(tags, name).ok

\* the entries of a field list that parseASTStructType hands to
\* parseASTFieldType and that are not tagged ssz:"-"
Included(fs) ==
    {j \in 1..Len(fs) :
        /\ Len(fs[j].names) = 1
        /\ isExportedField(fs[j].names[1])
        /\ ~HasPrefix(fs[j].names[1], "XXX_")
        /\ getTags(fs[j].tags, "ssz") # [ok |-> TRUE, val |-> WordVal("-")]}

\* the bound a variable node carries: the emitters read a List's bound from
\* sizeInBytes, the bound of Bytes and BitList from maxSize
BoundOf(f) == IF f.sszValueType = TypeList THEN f.sizeInBytes ELSE f.maxSize

\* a declaration that lacks the annotation its kind needs
IsSlice(t) == t.k = "ArrayType" /\ getObjLen(t) = 0
IsBitlistDecl(d) ==
    \/ d.typ.k = "SelectorExpr" /\ d.typ.name = "Bitlist"
    \/ IsSlice(d.typ) /\ isByte(d.typ.x[1])
          /\ getTags(d.tags, "ssz") = [ok |-> TRUE, val |-> WordVal("bitlist")]
LacksBound(d) ==
    \/ IsBitlistDecl(d) /\ ~HasTag(d.tags, "ssz-max")
    \/ IsSlice(d.typ) /\ ~HasTag(d.tags, "ssz-size") /\ ~HasTag(d.tags, "ssz-max")

\* C15: in a built IR every variable Bytes, List and BitList field has an
\* ssz-max annotation and carries its value as its bound; a record with
\* an included field that is a byte slice or another slice with neither
\* ssz-size nor ssz-max, or a bitlist without ssz-max, is not built.
C15_VariableFieldsBounded ==
    /\ Built =>
        \A n \in BuiltStructs : \A i \in 1..Len(IR.objs[n].fields) :
            LET f == IR.objs[n].fields[i] IN
            (\/ f.sszValueType \in {TypeList, TypeBitList}
             \/ f.sszValueType = TypeBytes /\ ~isFixed(f))
            => /\ getTagsInt(DeclOfField(n, f).tags, "ssz-max").ok
               /\ BoundOf(f) = getTagsInt(DeclOfField(n, f).tags, "ssz-max").n
    /\ IRRan =>
        \A n \in DOMAIN IR.raw :
            (/\ n \in CodegenTargets(IR.raw, IR.sszTypeNames)
             /\ IR.raw[n].isStruct /\ ~IR.raw[n].implFunc
             /\ \E j \in Included(IR.raw[n].fields) : LacksBound(IR.raw[n].fields[j]))
            => BuildFailed


\* a declaration of two-dimensional byte storage
IsByteRows(d) ==
    /\ isArray(d.typ) /\ isArray(d.typ.x[1]) /\ isByte(d.typ.x[1].x[1])
    /\ getTags(d.tags, "ssz") # [ok |-> TRUE, val |-> WordVal("-")]

\* the size a tag supplies for the one dimension that is no array literal:
\* ssz-size if it is there, ssz-max if not
MissingSize(d) ==
    IF getTagsInt(d.tags, "ssz-size").ok THEN getTagsInt(d.tags, "ssz-size").n
    ELSE getTagsInt(d.tags, "ssz-max").n

\* the outer size f and the inner size s of the declaration
OuterSize(d) ==
    IF getObjLen(d.typ) # 0 THEN getObjLen(d.typ)
    ELSE IF getObjLen(d.typ.x[1]) # 0 THEN MissingSize(d)
    ELSE IF getTagsTuple(d.tags, "ssz-size").a # 0 THEN getTagsTuple(d.tags, "ssz-size").a
    ELSE getTagsInt(d.tags, "ssz-max").n

InnerSize(d) ==
    IF getObjLen(d.typ.x[1]) # 0 THEN getObjLen(d.typ.x[1])
    ELSE IF getObjLen(d.typ) # 0 THEN MissingSize(d)
    ELSE getTagsTuple(d.tags, "ssz-size").b

\* the outer dimension is a slice whose size is the value of ssz-max
OuterFromMax(d) ==
    /\ getObjLen(d.typ) = 0
    /\ IF getObjLen(d.typ.x[1]) # 0 THEN ~getTagsInt(d.tags, "ssz-size").ok
       ELSE getTagsTuple(d.tags, "ssz-size").a = 0

\* C19: a field of two-dimensional byte storage is a Vector when its outer
\* dimension is an array literal or comes from ssz-size and a List only
\* when its outer size comes from ssz-max; the node's count is the outer
\* size f and the element's byte length the inner size s.
C19_ByteRowsClassified ==
    Built =>
        \A n \in BuiltStructs : \A i \in 1..Len(IR.objs[n].fields) :
            LET f == IR.objs[n].fields[i]
                d == DeclOfField(n, f)
            IN IsByteRows(d) =>
                /\ f.sszValueType = IF OuterFromMax(d) THEN TypeList ELSE TypeVector
                /\ f.sizeInBytes = OuterSize(d)
                /\ f.elementType[1].sszValueType = TypeBytes
                /\ f.elementType[1].sizeInBytes = InnerSize(d)


LowerCase ==
    {"a", "b", "c", "d", "e", "f", "g", "h", "i", "j", "k", "l", "m",
     "n", "o", "p", "q", "r", "s", "t", "u", "v", "w", "x", "y", "z"}

RECURSIVE KeptNames(_, _, _)
\* the names of the entries of a field list from entry i on that have one
\* name, whose first character is not in dropFirst, that do not start with
\* XXX_ and are not tagged ssz:"-"
KeptNames(fs, i, dropFirst) ==
    IF i > Len(fs) THEN <<>>
    ELSE (IF /\ Len(fs[i].names) = 1
             /\ SubSeq(fs[i].names[1], 1, 1) \notin dropFirst
             /\ ~HasPrefix(fs[i].names[1], "XXX_")
             /\ getTags(fs[i].tags, "ssz") # [ok |-> TRUE, val |-> WordVal("-")]
          THEN <<fs[i].names[1]>> ELSE <<>>)
         \o KeptNames(fs, i + 1, dropFirst)

FieldNamesOf(v) == [i \in 1..Len(v.fields) |-> v.fields[i].fieldName]

-----------------------------------------------------------------------------
(* The command-line program, under SpecGen.                                *)

\* C17: when Generate has returned an error the process ends with a status
\* other than 0, after one message; it ends with status 0 only when
\* Generate returned nil.
C17_ExitStatus ==
    \A r \in Runs :
        gexit[r] # -1 =>
            /\ gerr[r] # "" => (gexit[r] # 0 /\ Len(gstdout[r]) = 1)
            /\ gexit[r] = 0 => gerr[r] = ""


\* C18: the emitters leave the IR as generateIR built it: the step of
\* Generate that runs them changes no attribute of any node of e.objs.
C18_EmissionReadOnly ==
    [][\A r \in Runs : (gpc[r] = "ir" /\ gpc'[r] # "ir") => genv'[r].objs = genv[r].objs]_vars


-----------------------------------------------------------------------------
(* The bound check of a BitList field.                                     *)

\* the bitlist field of the record whose methods run, and its bytes in the
\* receiver MarshalSSZTo was called on
BitListField == CHOOSE f \in Range(Target.fields) : f.sszValueType = TypeBitList
BitListBytes == mrecv0.f[BitListField.fieldName]

\* the number of bytes the claim allows a bitlist of at most maxBits bits
BytesAllowed(maxBits) == (maxBits + 7) \div 8 + 1

\* C20: MarshalSSZTo accepts a BitList field of bound maxBits exactly when
\* its byte length is at most ceil(maxBits / 8) + 1, and returns
\* ErrBytesLength when it is not.
C20_BitListBound ==
    (mpc = "marshalled" /\ mty \in BitlistRecords) =>
        IF Len(BitListBytes) <= BytesAllowed(BitListField.maxSize) THEN mres = ""
        ELSE mres = "ErrBytesLength"

-----------------------------------------------------------------------------
(* Specification SpecEmit: the four emitters run on the node of one        *)
(* record, each once, in any order.  print runs them in the order          *)
(* hashTreeRoot, marshal, unmarshal, size; each finds the node as the one  *)
(* before left it.                                                         *)

\* the field declarations whose code is emitted: lists and vectors of
\* fixed records, of variable records and of records with their own
\* methods, rows of bytes as arrays and as slices, of a length that is and
\* is not a multiple of the chunk size, lists and vectors of integers,
\* byte strings, a bitlist, a record and an integer
EmitDecls ==
    {Decl(Arr(0, Star(Ident(n))), t) : n \in {"A", "C", "I"}, t \in {Max(2), Size(2)}}
    \cup {Decl(Arr(2, Arr(n, Ident("byte"))), NoTags) : n \in {3, 32, 48}}
    \cup {Decl(Bytes2D, SizeTuple(2, n)) : n \in {3, 32, 48}}
    \cup {Decl(Bytes2D, SizeDefer(n) \o Max(2)) : n \in {3, 32, 48}}
    \cup {Decl(Arr(0, Arr(48, Ident("byte"))), Max(2)), Decl(Arr(0, Arr(32, Ident("byte"))), Size(2))}
    \cup {Decl(Arr(0, Ident("uint64")), Max(3)), Decl(Arr(0, Ident("uint64")), Size(3))}
    \cup {Decl(Bytes1D, Max(5)), Decl(Bytes1D, Size(3)), Decl(Sel("bitfield", "Bitlist"), Max(9)),
          Decl(Star(Ident("C")), NoTags), Decl(Ident("uint16"), NoTags)}

\* the node generateIR builds for the record R with the one field F
EmitNode(d) ==
    generateIR(NewEnv(parsePackage(DirR(<<Field("F", d.typ, d.tags)>>), <<"p">>).pkg, EmptyMap, {"R"}),
               <<"r.go">>, <<"r.go">>, <<>>, <<"R">>).objs["R"]

Emitters == {"hashTreeRoot", "marshal", "unmarshal", "size"}

InitEmit ==
    /\ input = Args(DirMissing, <<>>, {}, "", {})
    /\ gpc = [r \in Runs |-> "start"]
    /\ genv = [r \in Runs |-> NewEnv(NoPackage, EmptyMap, {})]
    /\ gout = [r \in Runs |-> NoOut]
    /\ gtodo = [r \in Runs |-> {}]
    /\ gdisk = [r \in Runs |-> EmptyMap]
    /\ gerr = [r \in Runs |-> ""]
    /\ MainRunning
    /\ RuntimeIdle
    /\ lookup = <<>>
    /\ \E d \in EmitDecls :
          emit = [node0 |-> EmitNode(d), node |-> EmitNode(d), done |-> <<>>, text |-> EmptyMap]

\* emitter k has returned res: its text is kept and the node is as it left it
emitted(k, res) ==
    /\ k \notin Range(emit.done)
    /\ emit' = [emit EXCEPT !.node = res.v, !.done = Append(@, k), !.text = Put(@, k, res.code)]
    /\ UNCHANGED <<gvars, rvars, lookup>>

RunHashTreeRoot == emit # <<>> /\ emitted("hashTreeRoot", hashTreeRoot(emit.node))
RunMarshal == emit # <<>> /\ emitted("marshal", marshal(emit.node))
RunUnmarshal == emit # <<>> /\ emitted("unmarshal", unmarshal(emit.node))
RunSize == emit # <<>> /\ emitted("size", size(emit.node))

NextEmit == RunHashTreeRoot \/ RunMarshal \/ RunUnmarshal \/ RunSize

SpecEmit == InitEmit /\ [][NextEmit]_vars

\* the field F of the record and the statements the hash emitter wrote for
\* it when it ran first, as in print
EmitField == emit.node0.fields[1]
HashedFirst == emit.done # <<>> /\ emit.done[1] = "hashTreeRoot"
HashOfField == emit.text["hashTreeRoot"][1].body[1].body

OfRecords(f) ==
    /\ f.sszValueType \in {TypeVector, TypeList}
    /\ f.elementType[1].sszValueType \in {TypeContainer, TypeReference}

\* what a block of the hash text does: call HashTreeRootWith on each
\* element, refuse a count above max with ErrIncorrectListSize, finish with
\* MerkleizeWithMixin(subIndx, num, max), finish with Merkleize(subIndx)
CallsElementHash(st) == st.op = "hashList"
ChecksCount(st, max) == st.op = "hashList" /\ st.n = max
MixesIn(st, max) == st.op = "hashList" /\ st.n = max
MerkleizesPlain(st) == st.op = "hashRoots" /\ ~st.merkleize.mixin

\* C21: for a Vector or List field of records, the hash text calls
\* HashTreeRootWith on each element; for a List it first returns
\* ErrIncorrectListSize when the count is above maxSize and ends with the
\* mix-in of count and maxSize; for a Vector it ends with a plain Merkleize.
C21_HashOfRecords ==
    (HashedFirst /\ OfRecords(EmitField)) =>
        /\ Len(HashOfField) = 1
        /\ CallsElementHash(HashOfField[1])
        /\ EmitField.sszValueType = TypeList =>
              (ChecksCount(HashOfField[1], EmitField.maxSize)
               /\ MixesIn(HashOfField[1], EmitField.maxSize))
        /\ EmitField.sszValueType = TypeVector => MerkleizesPlain(HashOfField[1])

OfBytes(f) ==
    /\ f.sszValueType \in {TypeVector, TypeList}
    /\ f.elementType[1].sszValueType = TypeBytes

\* the smallest multiple of the chunk size that is at least n
ChunkCeiling(n) == CHOOSE m \in n..(n + chunkSize) : m % chunkSize = 0 /\ m >= n

\* what the loop body of a hashRoots block appends for an element: the
\* element copied into a zeroed buffer of PadTo bytes, or the element itself
AppendsPadded(inner, to) == inner.SubName = "padded" /\ inner.PadTo = to
AppendsUnpadded(inner) == inner.SubName \in {"i", "i[:]"} /\ inner.PadTo = 0

\* C22: in the hash text of a Vector or List of Bytes, an element whose
\* length is not a multiple of 32 is copied into a zeroed buffer of the next
\* multiple of 32 and that buffer is appended to the hasher; an element whose
\* length is a multiple of 32 is appended as it is; for elements that are
\* byte arrays and for elements that are slices of a declared length.
C22_RowsPadded ==
    (HashedFirst /\ OfBytes(EmitField)) =>
        /\ Len(HashOfField) = 1 /\ HashOfField[1].op = "hashRoots"
        /\ HashOfField[1].inner.AppendFn = "Append"
        /\ IF EmitField.elementType[1].sizeInBytes % chunkSize # 0
           THEN AppendsPadded(HashOfField[1].inner,
                              ChunkCeiling(EmitField.elementType[1].sizeInBytes))
           ELSE AppendsUnpadded(HashOfField[1].inner)

\* the text emitter k writes on the node as generateIR built it
TextOnNewNode(k) ==
    CASE k = "hashTreeRoot" -> hashTreeRoot(emit.node0).code
      [] k = "marshal" -> marshal(emit.node0).code
      [] k = "unmarshal" -> unmarshal(emit.node0).code
      [] k = "size" -> size(emit.node0).code

\* C28: the text an emitter writes for a record does not depend on the
\* emitters that ran on the record's node before it: in every order of the
\* four, each writes the text it writes on the node as it was built.
C28_EmitterOrderIndependent ==
    emit # <<>> => \A k \in DOMAIN emit.text : emit.text[k] = TextOnNewNode(k)

-----------------------------------------------------------------------------
(* The records marked implFunc, under SpecIR.                               *)

\* the parameter and result types of the four methods of the interface
Signature(m) ==
    CASE m = "SizeSSZ" -> <<<<>>, <<"int">>>>
      [] m = "MarshalSSZTo" -> <<<<"[]byte">>, <<"[]byte", "error">>>>
      [] m = "UnmarshalSSZ" -> <<<<"[]byte">>, <<"error">>>>
      [] m = "HashTreeRootWith" -> <<<<"*ssz.Hasher">>, <<"error">>>>

\* the files of the package that declares the record n
PackageFilesOf(e, n) ==
    {kn \in DeclFiles(e) : \E d \in DeclsOf(e, n) : d[1][1] = kn[1]}

\* some file of the record's package declares method m on a pointer to n,
\* with the parameters and results of the interface
DeclaresMethod(e, n, m) ==
    \E kn \in PackageFilesOf(e, n) : \E j \in 1..Len(FileOf(e, kn).funcs) :
        LET fn == FileOf(e, kn).funcs[j] IN
        /\ fn.recv = n /\ fn.ptr /\ fn.name = m
        /\ <<fn.in, fn.out>> = Signature(m)

DeclaresAllFour(e, n) ==
    \A m \in {"SizeSSZ", "MarshalSSZTo", "UnmarshalSSZ", "HashTreeRootWith"} : DeclaresMethod(e, n, m)

\* C23: when generateIR has succeeded, a record is marked implFunc exactly
\* when the files of its package, taken together, declare the four methods
\* of the interface on a pointer to it with the interface's signatures.
C23_ImplFuncIffFourMethods ==
    Built => \A n \in DOMAIN IR.raw : IR.raw[n].implFunc <=> DeclaresAllFour(IR, n)

-----------------------------------------------------------------------------
(* The package parsePackage returns, under SpecIR.                          *)

\* parsePackage on the source path has returned; Generate keeps what it
\* returned in the env, or returns its error
SourceParsed == gpc[1] # "start"
ParseFailed == gpc[1] = "done" /\ genv[1].sourcePackage = NoPackage /\ gerr[1] # ""

\* the packages parser.ParseDir finds in a directory: those of the .go
\* files whose name does not end in _test.go
ParsedPackages(d) ==
    {d.entries[n].pkg : n \in {m \in DOMAIN d.entries : HasSuffix(m, ".go") /\ ~HasSuffix(m, "_test.go")}}

\* the files of package k that hold more than the package clause
FilesLeft(d, k) ==
    {n \in DOMAIN d.entries :
        /\ HasSuffix(n, ".go") /\ ~HasSuffix(n, "_test.go")
        /\ d.entries[n].pkg = k /\ ~d.entries[n].file.empty}

\* k is the test companion of a package of the directory
IsCompanion(d, k) == \E q \in ParsedPackages(d) : k = q \o "_test"

\* the packages left when the companions and the packages without a file
\* left are taken out
EffectivePackages(d) ==
    {k \in ParsedPackages(d) : ~IsCompanion(d, k) /\ FilesLeft(d, k) # {}}

\* C24: parsePackage on a directory returns its one effective package, the
\* test companions P_test and the packages whose files are all empty being
\* left out, with the files of that package that are not empty; it returns
\* an error when two or more packages are left, or none.
C24_PackageSelection ==
    (SourceParsed /\ input.source.stat = "dir") =>
        IF Cardinality(EffectivePackages(input.source)) = 1
        THEN \E k \in EffectivePackages(input.source) :
                genv[1].sourcePackage =
                    [Name |-> k,
                     Files |-> [n \in FilesLeft(input.source, k) |-> input.source.entries[n].file]]
        ELSE ParseFailed

\* C25: when the path names one file, parsePackage succeeds and the package
\* it returns holds that file and no other file of the directory.
C25_SingleFile ==
    (SourceParsed /\ input.source.stat = "file") =>
        /\ genv[1].sourcePackage # NoPackage
        /\ DOMAIN genv[1].sourcePackage.Files = {input.source.fileName}

-----------------------------------------------------------------------------
(* Records that refer to each other, under SpecIR.                          *)

RECURSIVE NamesIn(_)
\* the type names a type expression mentions
NamesIn(expr) ==
    CASE expr.k \in {"StarExpr", "ArrayType"} -> NamesIn(expr.x[1])
      [] expr.k = "Ident" ->
            IF expr.name \in {"uint64", "uint32", "uint16", "uint8", "bool", "byte"} THEN {}
            ELSE {expr.name}
      [] OTHER -> {}

\* the declared names the declaration of n refers to, through the fields
\* the builder reads or through the type an alias stands for
RefersTo(raw, n) ==
    (IF raw[n].isStruct
     THEN UNION {NamesIn(raw[n].fields[j].typ) : j \in Included(raw[n].fields)}
     ELSE NamesIn(raw[n].typ[1])) \cap DOMAIN raw

RECURSIVE ReachableFrom(_, _, _)
\* the names reached from the set S in at most k steps
ReachableFrom(raw, S, k) ==
    IF k = 0 THEN S
    ELSE ReachableFrom(raw, S \cup UNION {RefersTo(raw, n) : n \in S}, k - 1)

\* n refers to itself, directly or through other declarations
OnCycle(raw, n) ==
    n \in ReachableFrom(raw, RefersTo(raw, n), Cardinality(DOMAIN raw))

\* a target of the build reaches a declaration that is on a cycle
CycleAhead(e) ==
    \E t \in CodegenTargets(e.raw, e.sszTypeNames) \cap DOMAIN e.raw :
        \E n \in ReachableFrom(e.raw, {t}, Cardinality(DOMAIN e.raw)) : OnCycle(e.raw, n)

\* generateIR has returned, or the program has ended in it
IREnded == IRRan /\ IR.raw # EmptyMap

\* C26: the construction of the IR ends on every input without exhausting
\* the stack, and when the records the targets reach refer to each other in
\* a cycle generateIR returns an error.
C26_CyclesRejected ==
    IREnded =>
        /\ gerr[1] # StackOverflow
        /\ CycleAhead(IR) => BuildFailed

-----------------------------------------------------------------------------
(* Specification SpecTags: getTags, getTagsInt and getTagsTuple called on  *)
(* a tag string of up to three tokens.                                     *)

\* the tokens strings.Split(str, " ") gives: key:"value" for three keys, a
\* token whose value is not in quotes, one without a colon, one with two
\* colons (as json:"a:b"), and the empty token two spaces in a row give
BadTok(name, colons, quoted) ==
    [name |-> name, colons |-> colons, quoted |-> quoted, val |-> WordVal("x")]

TagTokens ==
    {Tok("ssz-size", IntVal(32)), Tok("ssz-size", TupleVal(2, 3)), Tok("ssz-max", IntVal(5)),
     Tok("ssz-max", WordVal("x")), Tok("json", WordVal("x")),
     BadTok("json", 1, FALSE), BadTok("json", 2, TRUE), BadTok("json", 0, FALSE),
     BadTok("", 0, FALSE), BadTok("ssz-size", 1, FALSE)}

MaxTokens == 3

TagKeys == {"ssz-size", "ssz-max", "ssz"}

InitTags ==
    /\ input = Args(DirMissing, <<>>, {}, "", {})
    /\ gpc = [r \in Runs |-> "start"]
    /\ genv = [r \in Runs |-> NewEnv(NoPackage, EmptyMap, {})]
    /\ gout = [r \in Runs |-> NoOut]
    /\ gtodo = [r \in Runs |-> {}]
    /\ gdisk = [r \in Runs |-> EmptyMap]
    /\ gerr = [r \in Runs |-> ""]
    /\ MainRunning
    /\ RuntimeIdle
    /\ emit = <<>>
    /\ \E str \in SeqsUpTo(TagTokens, MaxTokens), key \in TagKeys :
          lookup = [str |-> str, key |-> key, fn |-> "", res |-> NotFound]

looked(fn, res) ==
    /\ lookup.fn = ""
    /\ lookup' = [lookup EXCEPT !.fn = fn, !.res = res]
    /\ UNCHANGED <<gvars, rvars, emit>>

CallGetTags == lookup # <<>> /\ looked("getTags", getTags(lookup.str, lookup.key))
CallGetTagsInt == lookup # <<>> /\ looked("getTagsInt", getTagsInt(lookup.str, lookup.key))
CallGetTagsTuple == lookup # <<>> /\ looked("getTagsTuple", getTagsTuple(lookup.str, lookup.key))

NextTags == CallGetTags \/ CallGetTagsInt \/ CallGetTagsTuple

SpecTags == InitTags /\ [][NextTags]_vars

\* the tokens of the form key:"v" for the key looked up
TokensOf(str, key) ==
    {i \in 1..Len(str) : str[i].name = key /\ str[i].colons = 1 /\ str[i].quoted}

FirstOf(S) == CHOOSE i \in S : \A j \in S : i <= j

\* C27: getTags returns the value of the first token key:"v" of the tag
\* string and present, whatever the tokens of other keys are and wherever
\* they stand; it returns not present when the string has no such token.
C27_TagLookup ==
    (lookup # <<>> /\ lookup.fn = "getTags") =>
        IF TokensOf(lookup.str, lookup.key) = {} THEN ~lookup.res.ok
        ELSE lookup.res = [ok |-> TRUE,
                           val |-> lookup.str[FirstOf(TokensOf(lookup.str, lookup.key))].val]

-----------------------------------------------------------------------------
(* The nodes encodeItem returns from its cache, under SpecIR.               *)

\* the declared name a field's type stands for, when it is an alias or a
\* record with the four methods: the names whose node depends on the tags
TaggedName(d) ==
    IF namedBy(d.typ) \in DOMAIN IR.raw
       /\ (IR.raw[namedBy(d.typ)].implFunc \/ ~IR.raw[namedBy(d.typ)].isStruct)
    THEN namedBy(d.typ) ELSE ""

\* the sizes of a node
SizesOf(v) ==
    [sszValueType |-> v.sszValueType, sizeInBytes |-> v.sizeInBytes,
     valueSize |-> v.valueSize, maxSize |-> v.maxSize]

\* the node encodeItem builds for the name under the tags of the field
\* itself, the cache being empty
OwnNode(d) == encodeItem(IR.raw, EmptyMap, TaggedName(d), d.tags, MaxDepth)

\* C29: in a built IR, the node of a field whose type is an alias or a
\* record with the four methods has the sizes its own ssz-size and ssz-max
\* tags declare, whichever field or target of the same type was built first.
C29_CachedNodeOwnTags ==
    Built =>
        \A n \in BuiltStructs : \A i \in 1..Len(IR.objs[n].fields) :
            LET f == IR.objs[n].fields[i]
                d == DeclOfField(n, f)
            IN TaggedName(d) # "" =>
                  /\ OwnNode(d).err = ""
                  /\ SizesOf(f) = SizesOf(OwnNode(d).v)

-----------------------------------------------------------------------------
(* UnmarshalSSZ on a receiver that holds data, under Spec.                  *)

\* what UnmarshalSSZ of the same bytes gives on a new record
OnNewRecord == CallMethod(Program, "Unmarshal", NewRec(Program.objs, mty), mbuf)

\* C30: when UnmarshalSSZ of a buffer succeeds on a receiver, whatever the
\* receiver held, it leaves the receiver equal to what UnmarshalSSZ of the
\* same buffer leaves in a new record.
C30_UnmarshalIgnoresReceiver ==
    (mpc = "unmarshalled" /\ mres = "")
        => (OnNewRecord.err = "" /\ mrecv = OnNewRecord.recv)

=============================================================================
